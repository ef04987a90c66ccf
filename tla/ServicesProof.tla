---------------------------- MODULE ServicesProof ----------------------------
(* Proofs about the programs of Services, for all values of their constants.  *)
EXTENDS Services, Induction, FiniteSetTheorems

------------------------------------------------------------------------------
(* RateLimiter: the tokens left in a bucket count against every window still  *)
(* open, which is what a step of the bucket needs to keep every window        *)
(* within its bound.                                                          *)

LEMMA FullNat == Full \in Nat
  <1>1. \A x, y \in Nat : x * y \in Nat
    OBVIOUS
  <1> QED
    BY <1>1, RateAssumption DEF Full

LEMMA Telescopes ==
  ASSUME NEW r \in Nat, NEW a \in Int, NEW b \in Int, NEW c \in Int
  PROVE  (b - a) * r + (c - b) * r = (c - a) * r
  OBVIOUS

LEMMA OneMore ==
  ASSUME NEW u \in Nat, NEW n \in Int
  PROVE  (n + 1) * u = n * u + u
  OBVIOUS

LEMMA NatTimes ==
  ASSUME NEW m \in Nat, NEW n \in Nat
  PROVE  m * n \in Nat
  OBVIOUS

LEMMA Gap ==
  ASSUME NEW m \in Nat, NEW n \in Nat, m <= n
  PROVE  n - m \in Nat
  OBVIOUS

(* What comes in since the last refill, capped by the bucket.                 *)
LEMMA RefilledBounds ==
  ASSUME TypeOK, NEW a \in Addrs, last[a] <= now
  PROVE  /\ Refilled(a) \in Nat
         /\ Refilled(a) <= Full
         /\ Refilled(a) <= tokens[a] + (now - last[a]) * Rate
  <1> DEFINE come == (now - last[a]) * Rate
  <1>1. now - last[a] \in Nat /\ Rate \in Nat
    BY RateAssumption DEF TypeOK
  <1>2. come \in Nat
    BY <1>1, NatTimes
  <1>3. tokens[a] \in Nat
    BY DEF TypeOK
  <1>4. Refilled(a) = IF tokens[a] + come > Full THEN Full ELSE tokens[a] + come
    BY DEF Refilled
  <1> HIDE DEF come
  <1>5. /\ Refilled(a) \in Nat /\ Refilled(a) <= Full
        /\ Refilled(a) <= tokens[a] + come
    BY <1>2, <1>3, <1>4, FullNat
  <1> QED
    BY <1>5 DEF come

(* A bucket that is asked: what it keeps and what came in stay within the     *)
(* budget of a window that was open.                                          *)
LEMMA BudgetMoves ==
  ASSUME TypeOK, WindowBudget, NEW a \in Addrs, NEW i \in 1..Len(allowed[a])
  PROVE  (Len(allowed[a]) - i + 1) * Unit + Refilled(a)
            <= Full + (now - allowed[a][i]) * Rate
  <1> DEFINE open == (Len(allowed[a]) - i + 1) * Unit
             old  == (last[a] - allowed[a][i]) * Rate
             come == (now - last[a]) * Rate
             new  == (now - allowed[a][i]) * Rate
  <1>1. allowed[a] \in Seq(Nat) /\ allowed[a][i] \in Nat
    BY DEF TypeOK
  <1>2. last[a] \in Nat /\ now \in Nat /\ tokens[a] \in Nat /\ Rate \in Nat /\ Unit \in Nat
    BY RateAssumption DEF TypeOK
  <1>3. last[a] <= now /\ allowed[a][i] <= last[a] /\ open + tokens[a] <= Full + old
    BY DEF WindowBudget
  <1>4. old + come = new
    <2>1. Rate \in Nat /\ allowed[a][i] \in Int /\ last[a] \in Int /\ now \in Int
      BY <1>1, <1>2
    <2> QED
      BY <2>1, Telescopes, Zenon
  <1>5. Refilled(a) \in Nat /\ Refilled(a) <= tokens[a] + come
    BY <1>3, RefilledBounds
  <1>6. Len(allowed[a]) - i + 1 \in Nat
    BY <1>1
  <1>7. now - last[a] \in Nat /\ last[a] - allowed[a][i] \in Nat
    <2> HIDE DEF open, old, come, new
    <2>1. last[a] <= now /\ allowed[a][i] <= last[a]
      BY <1>3
    <2>2. now - last[a] \in Nat
      BY <1>2, <2>1, Gap
    <2>3. last[a] - allowed[a][i] \in Nat
      BY <1>1, <1>2, <2>1, Gap
    <2> QED
      BY <2>2, <2>3
  <1>8. open \in Nat /\ old \in Nat /\ come \in Nat
    BY <1>2, <1>6, <1>7, NatTimes
  <1> HIDE DEF open, old, come, new
  <1>9. open + Refilled(a) <= Full + new
    BY <1>2, <1>3, <1>4, <1>5, <1>8, FullNat
  <1> QED
    BY <1>9 DEF open, new

LEMMA LimiterInitInv == Init => LimiterInv
  <1> SUFFICES ASSUME Init PROVE LimiterInv
    OBVIOUS
  <1>1. \A a \in Addrs : allowed[a] = <<>> /\ tokens[a] = Full /\ last[a] = 0
    BY DEF Init
  <1>2. allowed \in [Addrs -> Seq(Nat)]
    BY DEF Init
  <1>3. TypeOK
    BY <1>2, FullNat DEF Init, TypeOK
  <1>4. \A a \in Addrs : Len(allowed[a]) = 0
    <2>1. Len(<<>>) = 0
      OBVIOUS
    <2> QED
      BY <1>1, <2>1
  <1>5. EveryWindowBounded
    BY <1>4 DEF EveryWindowBounded
  <1>6. WindowBudget
    BY <1>1, <1>4, FullNat DEF Init, WindowBudget
  <1> QED
    BY <1>3, <1>5, <1>6 DEF LimiterInv

LEMMA GetLimiterKeeps ==
  ASSUME LimiterInv, NEW h \in Handlers, NEW a \in Addrs, GetLimiter(h, a)
  PROVE  LimiterInv'
  <1> USE DEF LimiterInv
  <1>1. TypeOK'
    BY FullNat DEF GetLimiter, TypeOK, bucket
  <1>2. allowed' = allowed /\ now' = now
    BY DEF GetLimiter
  <1>3. EveryWindowBounded'
    BY <1>2 DEF EveryWindowBounded, Full
  <1>4. \A b \in Addrs : \/ tokens'[b] = tokens[b] /\ last'[b] = last[b]
                         \/ tokens'[b] = Full /\ last'[b] = now /\ b \notin known
    BY DEF GetLimiter, TypeOK, bucket
  <1>5. \A b \in Addrs : b \notin known => Len(allowed[b]) = 0
    BY DEF WindowBudget
  <1>6. WindowBudget'
    <2>1. \A b \in Addrs : tokens'[b] <= Full /\ last'[b] <= now'
      <3>1. \A b \in Addrs : tokens[b] <= Full /\ last[b] <= now
        BY DEF WindowBudget
      <3>2. now \in Nat
        BY DEF TypeOK
      <3> QED
        BY <1>2, <1>4, <3>1, <3>2, FullNat
    <2>2. ASSUME NEW b \in Addrs, NEW i \in 1..Len(allowed[b])
          PROVE  /\ allowed[b][i] <= last'[b]
                 /\ (Len(allowed[b]) - i + 1) * Unit + tokens'[b]
                       <= Full + (last'[b] - allowed[b][i]) * Rate
      <3>1. Len(allowed[b]) # 0
        BY DEF TypeOK
      <3>2. tokens'[b] = tokens[b] /\ last'[b] = last[b]
        BY <1>4, <1>5, <3>1
      <3> QED
        BY <3>2 DEF WindowBudget
    <2>3. \A b \in Addrs : b \notin known' => allowed'[b] = <<>>
      BY <1>2 DEF GetLimiter, WindowBudget
    <2>4. \A g \in Handlers : asking'[g] # Idle => asking'[g] \in known'
      BY DEF GetLimiter, WindowBudget, TypeOK
    <2> QED
      BY <1>2, <2>1, <2>2, <2>3, <2>4 DEF WindowBudget, Full
  <1> QED
    BY <1>1, <1>3, <1>6

LEMMA BlockKeeps ==
  ASSUME LimiterInv, NEW h \in Handlers, NEW a \in Addrs, Block(h, a)
  PROVE  LimiterInv'
  <1> USE DEF LimiterInv
  <1>0. last[a] <= now
    BY DEF WindowBudget
  <1>a. Refilled(a) \in Nat /\ Refilled(a) <= Full
    BY <1>0, RefilledBounds
  <1>1. TypeOK'
    BY <1>a DEF Block, TypeOK
  <1>2. allowed' = allowed /\ now' = now /\ known' = known
    BY DEF Block
  <1>3. EveryWindowBounded'
    BY <1>2 DEF EveryWindowBounded, Full
  <1>4. \A b \in Addrs : \/ tokens'[b] = tokens[b] /\ last'[b] = last[b]
                         \/ tokens'[b] = Refilled(a) /\ last'[b] = now /\ b = a
    BY DEF Block, TypeOK
  <1>5. WindowBudget'
    <2>1. \A b \in Addrs : tokens'[b] <= Full /\ last'[b] <= now'
      <3>1. \A b \in Addrs : tokens[b] <= Full /\ last[b] <= now
        BY DEF WindowBudget
      <3>2. now \in Nat
        BY DEF TypeOK
      <3> QED
        BY <1>2, <1>4, <1>a, <3>1, <3>2
    <2>2. ASSUME NEW b \in Addrs, NEW i \in 1..Len(allowed[b])
          PROVE  /\ allowed[b][i] <= last'[b]
                 /\ (Len(allowed[b]) - i + 1) * Unit + tokens'[b]
                       <= Full + (last'[b] - allowed[b][i]) * Rate
      <3>1. CASE tokens'[b] = tokens[b] /\ last'[b] = last[b]
        BY <3>1 DEF WindowBudget
      <3>2. CASE tokens'[b] = Refilled(a) /\ last'[b] = now /\ b = a
        <4>1. allowed[b][i] <= last[b] /\ allowed[b][i] \in Nat /\ last[b] \in Nat
          BY DEF WindowBudget, TypeOK
        <4>2. allowed[b][i] <= now
          BY <1>0, <3>2, <4>1 DEF TypeOK
        <4>3. (Len(allowed[b]) - i + 1) * Unit + Refilled(b)
                 <= Full + (now - allowed[b][i]) * Rate
          BY BudgetMoves
        <4> QED
          BY <3>2, <4>2, <4>3
      <3> QED
        BY <1>4, <3>1, <3>2
    <2>3. \A b \in Addrs : b \notin known' => allowed'[b] = <<>>
      BY <1>2 DEF WindowBudget
    <2>4. \A g \in Handlers : asking'[g] # Idle => asking'[g] \in known'
      BY DEF Block, WindowBudget, TypeOK
    <2> QED
      BY <1>2, <2>1, <2>2, <2>3, <2>4 DEF WindowBudget, Full
  <1> QED
    BY <1>1, <1>3, <1>5

LEMMA PassKeeps ==
  ASSUME LimiterInv, NEW h \in Handlers, NEW a \in Addrs, Pass(h, a)
  PROVE  LimiterInv'
  <1> USE DEF LimiterInv
  <1> DEFINE n == Len(allowed[a])
             left == Refilled(a) - Unit
  <1>0. last[a] <= now /\ now \in Nat /\ Unit \in Nat /\ Rate \in Nat /\ n \in Nat
    BY RateAssumption DEF WindowBudget, TypeOK
  <1>a. Refilled(a) \in Nat /\ Refilled(a) <= Full /\ Unit <= Refilled(a)
    <2>1. Unit <= Refilled(a)
      BY <1>0, RefilledBounds DEF Pass
    <2> QED
      BY <1>0, <2>1, RefilledBounds
  <1>b. left \in Nat /\ left <= Full /\ left + Unit = Refilled(a)
    BY <1>0, <1>a, FullNat
  <1>c. allowed[a] \in Seq(Nat) /\ allowed'[a] = Append(allowed[a], now)
    BY DEF Pass, TypeOK
  <1>d. /\ Len(allowed'[a]) = n + 1 /\ allowed'[a][n + 1] = now
        /\ \A i \in 1..n : allowed'[a][i] = allowed[a][i]
    BY <1>0, <1>c
  <1>e. \A b \in Addrs : b # a => /\ allowed'[b] = allowed[b] /\ tokens'[b] = tokens[b]
                                  /\ last'[b] = last[b]
    BY DEF Pass, TypeOK
  <1>f. now' = now /\ known' = known /\ last'[a] = now /\ tokens'[a] = left
    BY DEF Pass, TypeOK
  <1>1. TypeOK'
    <2>1. tokens' \in [Addrs -> Nat] /\ last' \in [Addrs -> Nat]
      BY <1>0, <1>b DEF Pass, TypeOK
    <2>2. asking' \in [Handlers -> Addrs \union {Idle}]
      BY DEF Pass, TypeOK
    <2>3. Append(allowed[a], now) \in Seq(Nat)
      BY <1>0, <1>c
    <2>4. allowed' \in [Addrs -> Seq(Nat)]
      BY <2>3 DEF Pass, TypeOK
    <2> QED
      BY <1>f, <2>1, <2>2, <2>4 DEF TypeOK
  <1>2. ASSUME NEW i \in 1..(n + 1)
        PROVE  /\ allowed'[a][i] \in Nat /\ allowed'[a][i] <= now
               /\ (n + 1 - i + 1) * Unit + left <= Full + (now - allowed'[a][i]) * Rate
    <2>1. CASE i = n + 1
      <3>1. (n + 1 - i + 1) * Unit = Unit /\ (now - now) * Rate = 0
        BY <1>0, <2>1
      <3>2. allowed'[a][i] = now
        BY <1>d, <2>1
      <3>3. Unit + left <= Full + 0
        <4> HIDE DEF left
        <4> QED
          BY <1>0, <1>a, <1>b, FullNat
      <3> HIDE DEF left, n
      <3> QED
        BY <1>0, <3>1, <3>2, <3>3
    <2>2. CASE i # n + 1
      <3>1. i \in 1..n
        BY <1>0, <2>2
      <3>2. allowed[a][i] \in Nat /\ allowed[a][i] <= last[a] /\ last[a] \in Nat
        BY <3>1 DEF WindowBudget, TypeOK
      <3>3. (n - i + 1) * Unit + Refilled(a) <= Full + (now - allowed[a][i]) * Rate
        BY <3>1, BudgetMoves
      <3>4. (n + 1 - i + 1) * Unit = (n - i + 1) * Unit + Unit
        <4>1. n - i + 1 \in Int /\ n + 1 - i + 1 = (n - i + 1) + 1
          BY <1>0, <3>1
        <4> QED
          BY <1>0, <4>1, OneMore
      <3>5. (n - i + 1) * Unit \in Int /\ (now - allowed[a][i]) * Rate \in Int
        BY <1>0, <3>1, <3>2
      <3>6. (n + 1 - i + 1) * Unit + left <= Full + (now - allowed[a][i]) * Rate
        <4> DEFINE w == (n - i + 1) * Unit
                   v == (now - allowed[a][i]) * Rate
        <4>1. w + Refilled(a) <= Full + v /\ w \in Int /\ v \in Int
          BY <3>3, <3>5
        <4>2. (n + 1 - i + 1) * Unit = w + Unit
          BY <3>4
        <4> HIDE DEF w, v, left
        <4>3. (w + Unit) + left <= Full + v
          BY <1>0, <1>a, <1>b, <4>1, FullNat
        <4> QED
          BY <4>2, <4>3 DEF v
      <3>7. allowed[a][i] <= now
        BY <1>0, <3>2
      <3> QED
        BY <1>d, <3>1, <3>2, <3>6, <3>7
    <2> QED
      BY <2>1, <2>2
  <1>3. WindowBudget'
    <2>1. \A b \in Addrs : tokens'[b] <= Full /\ last'[b] <= now'
      <3>1. \A b \in Addrs : tokens[b] <= Full /\ last[b] <= now
        BY DEF WindowBudget
      <3>2. tokens'[a] <= Full /\ last'[a] <= now'
        <4> HIDE DEF left
        <4> QED
          BY <1>0, <1>b, <1>f
      <3>3. \A b \in Addrs : b # a => tokens'[b] <= Full /\ last'[b] <= now'
        BY <1>e, <1>f, <3>1
      <3> QED
        BY <3>2, <3>3
    <2>2. ASSUME NEW b \in Addrs, NEW i \in 1..Len(allowed'[b])
          PROVE  /\ allowed'[b][i] <= last'[b]
                 /\ (Len(allowed'[b]) - i + 1) * Unit + tokens'[b]
                       <= Full + (last'[b] - allowed'[b][i]) * Rate
      <3>1. CASE b = a
        BY <1>2, <1>d, <1>f, <3>1
      <3>2. CASE b # a
        BY <1>e, <3>2 DEF WindowBudget
      <3> QED
        BY <3>1, <3>2
    <2>3. /\ a \in known
          /\ \A g \in Handlers : asking'[g] # Idle => asking'[g] \in known'
      BY DEF Pass, WindowBudget, TypeOK
    <2>4. \A b \in Addrs : b \notin known' => allowed'[b] = <<>>
      BY <1>e, <1>f, <2>3 DEF WindowBudget
    <2> QED
      BY <2>1, <2>2, <2>3, <2>4 DEF WindowBudget, Full
  <1>4. EveryWindowBounded'
    <2>1. ASSUME NEW b \in Addrs, NEW i \in 1..Len(allowed'[b]), NEW j \in 1..Len(allowed'[b]),
                 i <= j
          PROVE  (j - i + 1) * Unit <= Full + (allowed'[b][j] - allowed'[b][i]) * Rate
      <3>1. CASE b # a
        BY <1>e, <2>1, <3>1 DEF EveryWindowBounded
      <3>2. CASE b = a /\ j \in 1..n
        <4>1. i \in 1..n
          BY <1>0, <1>d, <2>1, <3>2
        <4> QED
          BY <1>d, <2>1, <3>2, <4>1 DEF EveryWindowBounded
      <3>3. CASE b = a /\ j = n + 1
        <4>1. i \in 1..(n + 1)
          BY <1>d, <3>3
        <4> DEFINE w == (n + 1 - i + 1) * Unit
                   v == (now - allowed'[a][i]) * Rate
        <4>2. w + left <= Full + v
          BY <1>2, <4>1
        <4>3. w \in Int /\ v \in Int
          BY <1>0, <1>2, <4>1
        <4>4. w <= Full + v
          <5> HIDE DEF w, v, left
          <5> QED
            BY <1>b, <4>2, <4>3, FullNat
        <4> QED
          BY <1>d, <3>3, <4>4
      <3> QED
        BY <1>0, <1>d, <3>1, <3>2, <3>3
    <2> QED
      BY <2>1 DEF EveryWindowBounded, Full
  <1> QED
    BY <1>1, <1>3, <1>4

LEMMA LimiterTickKeeps ==
  ASSUME LimiterInv, Tick
  PROVE  LimiterInv'
  <1> USE DEF LimiterInv
  <1>1. TypeOK'
    BY DEF Tick, TypeOK, bucket
  <1>2. now' = now + 1 /\ UNCHANGED <<known, tokens, last, asking, allowed>>
    BY DEF Tick, bucket
  <1>3. EveryWindowBounded'
    BY <1>2 DEF EveryWindowBounded, Full
  <1>4. \A a \in Addrs : tokens[a] <= Full /\ last[a] <= now + 1
    <2>1. \A a \in Addrs : last[a] \in Nat /\ last[a] <= now /\ now \in Nat
      BY DEF WindowBudget, TypeOK
    <2>2. \A a \in Addrs : tokens[a] <= Full
      BY DEF WindowBudget
    <2>3. ASSUME NEW a \in Addrs
          PROVE  last[a] <= now + 1
      <3>1. ASSUME NEW m \in Nat, NEW n \in Nat, m <= n PROVE m <= n + 1
        BY <3>1
      <3> QED
        BY <2>1, <3>1
    <2> QED
      BY <2>2, <2>3
  <1>5. WindowBudget'
    BY <1>2, <1>4 DEF WindowBudget, Full
  <1> QED
    BY <1>1, <1>3, <1>5

LEMMA LimiterStutterKeeps ==
  ASSUME LimiterInv, UNCHANGED vars
  PROVE  LimiterInv'
  <1>1. UNCHANGED <<now, known, tokens, last, asking, allowed>>
    BY DEF vars, bucket
  <1>2. TypeOK'
    BY <1>1 DEF LimiterInv, TypeOK
  <1>3. EveryWindowBounded' /\ WindowBudget'
    BY <1>1 DEF LimiterInv, EveryWindowBounded, WindowBudget, Full
  <1> QED
    BY <1>2, <1>3 DEF LimiterInv

LEMMA LimiterNextKeeps == LimiterInv /\ [Next]_vars => LimiterInv'
  <1> SUFFICES ASSUME LimiterInv, [Next]_vars PROVE LimiterInv'
    OBVIOUS
  <1>1. ASSUME NEW h \in Handlers, NEW a \in Addrs, GetLimiter(h, a) PROVE LimiterInv'
    BY <1>1, GetLimiterKeeps
  <1>2. ASSUME NEW h \in Handlers, NEW a \in Addrs, Pass(h, a) PROVE LimiterInv'
    BY <1>2, PassKeeps
  <1>3. ASSUME NEW h \in Handlers, NEW a \in Addrs, Block(h, a) PROVE LimiterInv'
    BY <1>3, BlockKeeps
  <1>4. CASE Tick
    BY <1>4, LimiterTickKeeps
  <1>5. CASE UNCHANGED vars
    BY <1>5, LimiterStutterKeeps
  <1> QED
    BY <1>1, <1>2, <1>3, <1>4, <1>5 DEF Next

(* "Allows bursts up to B while maintaining average rate R", for any number   *)
(* of addresses and overlapping requests: in no window of t ticks does one    *)
(* address get more than B + R * t requests through.                          *)
THEOREM LimiterSafe == Spec => []LimiterInv
  <1> QED
    BY LimiterInitInv, LimiterNextKeeps, PTL DEF Spec

------------------------------------------------------------------------------
(* GracefulShutdown                                                           *)

ShutdownPlaces == {"none", "accepted", "tracked", "published", "served"}
ShutdownPhases == {"serving", "shutdown", "drain", "flush", "close", "exited"}

ShutdownTypeOK == /\ at \in [Requests -> ShutdownPlaces] /\ phase \in ShutdownPhases
          /\ inTime \in BOOLEAN /\ drained \in BOOLEAN /\ dbOpen \in BOOLEAN
          /\ waitedFor \subseteq Requests

(* Which results of the two waits there can be in which phase, and what they  *)
(* say of the requests from then on.                                          *)
WaitsHold ==
    /\ phase \in {"serving", "shutdown"} => ~inTime
    /\ phase \in {"serving", "shutdown", "drain"} => ~drained
    /\ inTime => \A r \in Requests : at[r] \in {"none", "served"}
    /\ \A r \in waitedFor : at[r] \in {"tracked", "published", "served"}
    /\ drained => \A r \in waitedFor : at[r] = "served"

(* A message that was published is in the buffer or written out; after the    *)
(* flush of a shutdown that was waited for, it is written out.                *)
MessagesHold ==
    /\ \A r \in Requests : at[r] \in {"published", "served"} => r \in buffer \union flushed
    /\ phase \in {"close", "exited"} =>
          /\ inTime => buffer = {}
          /\ drained => waitedFor \subseteq flushed
    /\ ~dbOpen => phase = "exited"

ShutdownInv == ShutdownTypeOK /\ WaitsHold /\ MessagesHold

LEMMA ShutdownInitInv == GS!Init => ShutdownInv
  BY DEF GS!Init, ShutdownInv, ShutdownTypeOK, WaitsHold, MessagesHold, ShutdownPlaces, ShutdownPhases

(* A step of a request before the process has ended: it goes one place on,    *)
(* and only the one from "tracked" touches the buffer.                        *)
LEMMA HandlerKeeps ==
  ASSUME ShutdownInv, NEW r \in Requests, GS!Accept(r) \/ GS!Track(r) \/ GS!Publish(r) \/ GS!Serve(r)
  PROVE  ShutdownInv'
  <1> USE DEF ShutdownInv
  <1>1. /\ at' \in [Requests -> ShutdownPlaces]
        /\ UNCHANGED <<flushed, phase, inTime, drained, waitedFor, dbOpen>>
        /\ \A q \in Requests : q # r => at'[q] = at[q]
        /\ phase # "exited"
    BY DEF GS!Accept, GS!Track, GS!Publish, GS!Serve, GS!Handler, ShutdownTypeOK, ShutdownPlaces
  <1>2. \/ at[r] = "none" /\ at'[r] = "accepted" /\ phase = "serving" /\ buffer' = buffer
        \/ at[r] = "accepted" /\ at'[r] = "tracked" /\ buffer' = buffer
        \/ at[r] = "tracked" /\ at'[r] = "published" /\ buffer' = buffer \union {r}
        \/ at[r] = "published" /\ at'[r] = "served" /\ buffer' = buffer
    BY DEF GS!Accept, GS!Track, GS!Publish, GS!Serve, GS!Handler, ShutdownTypeOK
  <1>3. ShutdownTypeOK'
    BY <1>1 DEF ShutdownTypeOK
  <1>4. inTime => at[r] = "served" \/ at[r] = "none"
    BY DEF WaitsHold
  <1>5. ~inTime
    BY <1>2, <1>4 DEF WaitsHold
  <1>6. WaitsHold'
    BY <1>1, <1>2, <1>5 DEF WaitsHold, ShutdownTypeOK
  <1>7. MessagesHold'
    BY <1>1, <1>2, <1>5 DEF MessagesHold
  <1> QED
    BY <1>3, <1>6, <1>7

LEMMA SignalKeeps == ShutdownInv /\ GS!Signal => ShutdownInv'
  BY DEF ShutdownInv, GS!Signal, ShutdownTypeOK, WaitsHold, MessagesHold, ShutdownPhases

LEMMA ShutdownKeeps ==
  ASSUME ShutdownInv, NEW ok \in BOOLEAN, GS!Shutdown(ok)
  PROVE  ShutdownInv'
  <1>1. /\ phase = "shutdown" /\ phase' = "drain" /\ inTime' = ok /\ waitedFor' = GS!InGroup
        /\ UNCHANGED <<at, buffer, flushed, drained, dbOpen>>
    BY DEF GS!Shutdown
  <1>2. \A r \in GS!InGroup : r \in Requests /\ at[r] \in {"tracked", "published"}
    BY DEF GS!InGroup
  <1>3. ok => \A r \in Requests : at[r] \in {"none", "served"}
    BY DEF GS!Shutdown, GS!Busy, GS!InGroup, ShutdownInv, ShutdownTypeOK, ShutdownPlaces
  <1>4. ShutdownTypeOK'
    BY <1>1, <1>2 DEF ShutdownInv, ShutdownTypeOK, ShutdownPhases
  <1>5. WaitsHold' /\ MessagesHold'
    BY <1>1, <1>2, <1>3 DEF ShutdownInv, WaitsHold, MessagesHold
  <1> QED
    BY <1>4, <1>5 DEF ShutdownInv

LEMMA WaitKeeps ==
  ASSUME ShutdownInv, NEW ok \in BOOLEAN, GS!Wait(ok)
  PROVE  ShutdownInv'
  <1>1. /\ phase = "drain" /\ phase' = "flush" /\ drained' = ok
        /\ UNCHANGED <<at, buffer, flushed, inTime, waitedFor, dbOpen>>
    BY DEF GS!Wait
  <1>2. ok => \A r \in waitedFor : at[r] = "served"
    BY DEF GS!Wait, GS!InGroup, ShutdownInv, ShutdownTypeOK, WaitsHold
  <1>3. ShutdownTypeOK' /\ WaitsHold' /\ MessagesHold'
    BY <1>1, <1>2 DEF ShutdownInv, ShutdownTypeOK, WaitsHold, MessagesHold, ShutdownPhases
  <1> QED
    BY <1>3 DEF ShutdownInv

LEMMA FlushKeeps ==
  ASSUME ShutdownInv, GS!Flush
  PROVE  ShutdownInv'
  <1>1. /\ phase = "flush" /\ phase' = "close"
        /\ flushed' = flushed \union buffer /\ buffer' = {}
        /\ UNCHANGED <<at, inTime, drained, waitedFor, dbOpen>>
    BY DEF GS!Flush
  <1>2. drained => waitedFor \subseteq flushed \union buffer
    BY DEF ShutdownInv, ShutdownTypeOK, WaitsHold, MessagesHold
  <1>3. ShutdownTypeOK' /\ WaitsHold'
    BY <1>1 DEF ShutdownInv, ShutdownTypeOK, WaitsHold, ShutdownPhases
  <1>4. MessagesHold'
    BY <1>1, <1>2 DEF ShutdownInv, MessagesHold
  <1> QED
    BY <1>3, <1>4 DEF ShutdownInv

LEMMA CloseDBKeeps ==
  ASSUME ShutdownInv, GS!CloseDB
  PROVE  ShutdownInv'
  <1>1. /\ phase = "close" /\ phase' = "exited" /\ dbOpen' = FALSE
        /\ UNCHANGED <<at, buffer, flushed, inTime, drained, waitedFor>>
    BY DEF GS!CloseDB
  <1>2. ShutdownTypeOK'
    BY <1>1 DEF ShutdownInv, ShutdownTypeOK, ShutdownPhases
  <1>3. WaitsHold' /\ MessagesHold'
    BY <1>1 DEF ShutdownInv, WaitsHold, MessagesHold
  <1> QED
    BY <1>2, <1>3 DEF ShutdownInv

LEMMA ShutdownNextInv == ShutdownInv /\ [GS!Next]_(GS!vars) => ShutdownInv'
  <1> SUFFICES ASSUME ShutdownInv, [GS!Next]_(GS!vars) PROVE ShutdownInv'
    OBVIOUS
  <1>1. ASSUME NEW r \in Requests, GS!Accept(r) \/ GS!Track(r) \/ GS!Publish(r) \/ GS!Serve(r)
        PROVE  ShutdownInv'
    BY <1>1, HandlerKeeps
  <1>2. CASE GS!Signal
    BY <1>2, SignalKeeps
  <1>3. ASSUME NEW ok \in BOOLEAN, GS!Shutdown(ok) \/ GS!Wait(ok) PROVE ShutdownInv'
    BY <1>3, ShutdownKeeps, WaitKeeps
  <1>4. CASE GS!Flush \/ GS!CloseDB
    BY <1>4, FlushKeeps, CloseDBKeeps
  <1>5. CASE UNCHANGED GS!vars
    BY <1>5 DEF GS!vars, ShutdownInv, ShutdownTypeOK, WaitsHold, MessagesHold
  <1> QED
    BY <1>1, <1>2, <1>3, <1>4, <1>5 DEF GS!Next, GS!MainMoves

LEMMA ShutdownInvImplies == ShutdownInv => GS!NothingLostInShutdown
  <1> SUFFICES ASSUME ShutdownInv PROVE GS!NothingLostInShutdown
    OBVIOUS
  <1>1. inTime => GS!Busy = {}
    BY DEF ShutdownInv, WaitsHold, GS!Busy, GS!InGroup
  <1>2. \A r \in Requests : at[r] = "served" /\ buffer = {} => r \in flushed
    BY DEF ShutdownInv, MessagesHold
  <1> QED
    BY <1>1, <1>2 DEF ShutdownInv, WaitsHold, MessagesHold, GS!NothingLostInShutdown

------------------------------------------------------------------------------
(* HTTPServer                                                                 *)

HTTPTypeOK ==
    /\ passed \in [WebRequests -> {"none", "entered", "handler", "answered", "completed"}]
    /\ input \in [WebRequests -> HS!Inputs \union {HS!NoInput}]
    /\ status \in [WebRequests -> {0, 200, 401, 405}]

(* A request in its handler has come past the authentication.                 *)
Admitted(r) == input[r].path = "/api/admin" => input[r].key

(* The answer is the one the request calls for.                               *)
RightAnswer(r) ==
    /\ status[r] = 200 <=> Admitted(r) /\ (input[r].path = "/api/users" => input[r].get)
    /\ status[r] = 401 <=> ~Admitted(r)

HTTPInv ==
    /\ HTTPTypeOK
    /\ process = "graceful" => HS!Busy = {}
    /\ \A r \in WebRequests : /\ passed[r] \in {"answered", "completed"} => RightAnswer(r)
                              /\ passed[r] = "handler" => Admitted(r)

LEMMA HTTPInitInv == HS!Init => HTTPInv
  BY DEF HS!Init, HTTPInv, HTTPTypeOK, HS!NoInput

(* A request goes on only while the process is there.                         *)
LEMMA RequestKeeps ==
  ASSUME HTTPInv, NEW r \in WebRequests,
         (\E i \in HS!Inputs : HS!Enter(r, i)) \/ HS!Auth(r) \/ HS!Handle(r) \/ HS!Complete(r)
  PROVE  HTTPInv'
  <1> USE DEF HTTPInv
  <1>1. /\ process # "graceful" /\ process' = process
        /\ \A q \in WebRequests \ {r} : /\ passed'[q] = passed[q] /\ input'[q] = input[q]
                                        /\ status'[q] = status[q]
        /\ HTTPTypeOK'
    BY DEF HTTPTypeOK, HS!Enter, HS!Auth, HS!Handle, HS!Complete, HS!WriteJSON, HS!Goes, HS!Exited
  <1>2. /\ passed'[r] \in {"answered", "completed"} => RightAnswer(r)'
        /\ passed'[r] = "handler" => Admitted(r)'
    <2>1. CASE \E i \in HS!Inputs : HS!Enter(r, i)
      BY <2>1 DEF HTTPTypeOK, HS!Enter, HS!Goes
    <2>2. CASE HS!Auth(r)
      BY <2>2 DEF HTTPTypeOK, HS!Auth, HS!WriteJSON, HS!Goes, Admitted, RightAnswer
    <2>3. CASE HS!Handle(r)
      BY <2>3 DEF HTTPTypeOK, HS!Handle, HS!WriteJSON, HS!Goes, Admitted, RightAnswer
    <2>4. CASE HS!Complete(r)
      BY <2>4 DEF HTTPTypeOK, HS!Complete, HS!Goes, Admitted, RightAnswer
    <2> QED
      BY <2>1, <2>2, <2>3, <2>4
  <1> QED
    BY <1>1, <1>2 DEF Admitted, RightAnswer

LEMMA HTTPNextInv == HTTPInv /\ [HS!Next]_(HS!vars) => HTTPInv'
  <1> SUFFICES ASSUME HTTPInv, [HS!Next]_(HS!vars) PROVE HTTPInv'
    OBVIOUS
  <1>1. CASE HS!Signal \/ HS!Shutdown \/ HS!ListenFails \/ UNCHANGED HS!vars
    <2>1. /\ UNCHANGED <<input, passed, status>>
          /\ process' = "graceful" => HS!Busy = {}
      BY <1>1 DEF HTTPInv, HS!Signal, HS!Shutdown, HS!ListenFails, HS!Ends, HS!vars
    <2> QED
      BY <2>1 DEF HTTPInv, HTTPTypeOK, HS!Busy, Admitted, RightAnswer
  <1> QED
    BY <1>1, RequestKeeps DEF HS!Next

(* Whatever requests there are and wherever they are when the signal comes: a *)
(* shutdown in time has served and flushed all it accepted, a drain that says *)
(* so has served those it began with, and their messages are not lost.  An    *)
(* HTTP server that stopped gracefully has answered all it took in, and every *)
(* answer is the one its request calls for.                                   *)
THEOREM ShutdownSafe == GS!Spec /\ HS!Spec => []NothingLostInShutdown
  <1>1. HTTPInv => HS!AnswersWhatItTook
    BY DEF HTTPInv, HS!AnswersWhatItTook, Admitted, RightAnswer
  <1>2. ShutdownInv /\ HTTPInv => NothingLostInShutdown
    BY <1>1, ShutdownInvImplies DEF NothingLostInShutdown
  <1>3. GS!Spec => []ShutdownInv
    BY ShutdownInitInv, ShutdownNextInv, PTL DEF GS!Spec
  <1>4. HS!Spec => []HTTPInv
    BY HTTPInitInv, HTTPNextInv, PTL DEF HS!Spec
  <1> QED
    BY <1>2, <1>3, <1>4, PTL

------------------------------------------------------------------------------
(* TCPServer                                                                  *)

(* The proof that goodbye is true, for any set of clients, an infinite one    *)
(* included: only finitely many connections are open at a time.               *)

(* The one type fact that the accounting needs.                               *)
ConnOK == conn \in [Conns -> {"none", "dialled", "read", "write", "closing", "closed"}]

(* The wait group counts the handlers, and main waits and returns only after  *)
(* the cancellation.                                                          *)
GoodbyeInv ==
    /\ ConnOK
    /\ IsFiniteSet(TS!Open) /\ wg = Cardinality(TS!Open)
    /\ server \in {"wait", "returned"} => ctxDone
    /\ server = "returned" => TS!Open = {}

LEMMA GoodbyeInitInv == TS!Init => GoodbyeInv
  <1> SUFFICES ASSUME TS!Init PROVE GoodbyeInv
    OBVIOUS
  <1>1. ConnOK /\ TS!Open = {} /\ wg = 0 /\ server = "accept"
    BY DEF TS!Init, ConnOK, TS!Open
  <1> QED
    BY <1>1, FS_EmptySet DEF GoodbyeInv

(* The steps that start no handler and end none.                              *)
LEMMA QuietSteps ==
  ASSUME GoodbyeInv, UNCHANGED wg, ConnOK', TS!Open' = TS!Open,
         server' \in {"wait", "returned"} => ctxDone',
         server' = "returned" => TS!Open = {}
  PROVE  GoodbyeInv'
  BY DEF GoodbyeInv

LEMMA GoodbyeNextInv == GoodbyeInv /\ [TS!Next]_(TS!vars) => GoodbyeInv'
  <1> SUFFICES ASSUME GoodbyeInv, [TS!Next]_(TS!vars) PROVE GoodbyeInv'
    OBVIOUS
  <1>1. ASSUME NEW c \in Conns, TS!Accept(c) PROVE GoodbyeInv'
    <2>1. ConnOK' /\ TS!Open' = TS!Open \union {c} /\ c \notin TS!Open
      BY <1>1 DEF GoodbyeInv, ConnOK, TS!Open, TS!Accept, TS!To
    <2>2. IsFiniteSet(TS!Open') /\ Cardinality(TS!Open') = Cardinality(TS!Open) + 1
      BY <2>1, FS_AddElement DEF GoodbyeInv
    <2> QED
      BY <1>1, <2>1, <2>2 DEF GoodbyeInv, TS!Accept
  <1>2. ASSUME NEW c \in Conns, TS!Leave(c) PROVE GoodbyeInv'
    <2>1. ConnOK' /\ TS!Open' = TS!Open \ {c} /\ c \in TS!Open
      BY <1>2 DEF GoodbyeInv, ConnOK, TS!Open, TS!Leave, TS!To
    <2>2. IsFiniteSet(TS!Open') /\ Cardinality(TS!Open') = Cardinality(TS!Open) - 1
      BY <2>1, FS_RemoveElement DEF GoodbyeInv
    <2> QED
      BY <1>2, <2>1, <2>2 DEF GoodbyeInv, TS!Leave
  <1>3. ASSUME NEW c \in Conns, TS!Dial(c) \/ TS!Echo(c) \/ TS!Break(c) PROVE GoodbyeInv'
    <2>1. ConnOK' /\ TS!Open' = TS!Open
      BY <1>3 DEF GoodbyeInv, ConnOK, TS!Open, TS!Dial, TS!Echo, TS!Break, TS!To
    <2>2. UNCHANGED <<wg, server, ctxDone>>
      BY <1>3 DEF TS!Dial, TS!Echo, TS!Break
    <2> QED
      BY <2>1, <2>2, QuietSteps DEF GoodbyeInv
  <1>4. CASE TS!Goodbye
    <2>1. TS!Open = {}
      BY <1>4, FS_EmptySet DEF GoodbyeInv, TS!Goodbye
    <2>2. ConnOK' /\ TS!Open' = TS!Open
      BY <1>4 DEF GoodbyeInv, ConnOK, TS!Open, TS!Goodbye
    <2> QED
      BY <1>4, <2>1, <2>2, QuietSteps DEF GoodbyeInv, TS!Goodbye
  <1>5. CASE TS!AcceptFails \/ TS!LookAtError \/ TS!Signal \/ TS!Cancel \/ TS!CloseListener
              \/ (\E c \in Conns : TS!Cut(c)) \/ UNCHANGED TS!vars
    <2>1. ConnOK' /\ TS!Open' = TS!Open /\ UNCHANGED wg
      BY <1>5 DEF GoodbyeInv, ConnOK, TS!Open, TS!AcceptFails, TS!LookAtError, TS!Signal, TS!Cancel,
                  TS!CloseListener, TS!Cut, TS!vars
    <2>2. /\ server' \in {"wait", "returned"} => ctxDone'
          /\ server' = "returned" => TS!Open = {}
      BY <1>5 DEF GoodbyeInv, TS!AcceptFails, TS!LookAtError, TS!Signal, TS!Cancel, TS!CloseListener, TS!Cut, TS!vars
    <2> QED
      BY <2>1, <2>2, QuietSteps
  <1> QED
    BY <1>1, <1>2, <1>3, <1>4, <1>5 DEF TS!Next

(* When main says goodbye no handler is left, whatever was accepted while the *)
(* signal arrived.                                                            *)
THEOREM GoodbyeMeansClosed == TS!Spec => []GoodbyeIsTrue
  <1>1. TS!Cardinality(TS!Open) = Cardinality(TS!Open)
    BY DEF TS!Cardinality, Cardinality
  <1>2. GoodbyeInv => GoodbyeIsTrue
    BY <1>1 DEF GoodbyeInv, GoodbyeIsTrue, TS!GoodbyeIsTrue
  <1> QED
    BY <1>2, GoodbyeInitInv, GoodbyeNextInv, PTL DEF TS!Spec

------------------------------------------------------------------------------
(* UserService                                                                *)

UsersTypeOK ==
    /\ rpc \in [Calls -> {"idle", "create", "store", "get", "list"}]
    /\ newID \in [Calls -> Nat] /\ idCounter \in Nat
    /\ DOMAIN streamed = Calls /\ streamed = [c \in Calls |-> streamed[c]]
    /\ DOMAIN moment = Calls /\ moment = [c \in Calls |-> moment[c]]

(* Who holds the lock is where the RPCs are, and a writer is alone.           *)
LockHeld ==
    /\ \A c \in Calls : rpc[c] \in {"get", "list"} <=> c \in readers
    /\ \A c \in Calls : rpc[c] = "store" <=> c \in writer
    /\ writer # {} => readers = {}
    /\ \A c, d \in writer : c = d
    /\ readers \subseteq Calls /\ writer \subseteq Calls

(* Every id up to the counter is given to one user, stored or about to be;    *)
(* and who streams holds the users of the moment he took the lock.            *)
IDsGivenOnce ==
    /\ directory \subseteq 1..idCounter
    /\ \A c \in writer : newID[c] \in 1..idCounter
    /\ \A i \in 1..idCounter : i \in directory \/ \E c \in writer : newID[c] = i
    /\ \A c \in Calls : rpc[c] = "list" =>
          directory = moment[c] /\ streamed[c] \subseteq directory
    /\ \A c \in Calls : rpc[c] # "list" => streamed[c] = {}

UsersInv == UsersTypeOK /\ LockHeld /\ IDsGivenOnce

LEMMA UsersInitInv == US!Init => UsersInv
  BY DEF US!Init, UsersInv, UsersTypeOK, LockHeld, IDsGivenOnce

LEMMA WriterKeeps ==
  ASSUME UsersInv, NEW c \in Calls, US!CreateUser(c) \/ US!Lock(c) \/ US!Store(c)
  PROVE  UsersInv'
  <1> USE DEF UsersInv
  <1>1. CASE US!CreateUser(c)
    BY <1>1 DEF US!CreateUser, US!To, US!lock, UsersTypeOK, LockHeld, IDsGivenOnce
  <1>2. CASE US!Lock(c)
    <2>1. /\ rpc[c] = "create" /\ readers = {} /\ writer = {} /\ writer' = {c}
          /\ rpc' = [rpc EXCEPT ![c] = "store"] /\ idCounter' = idCounter + 1
          /\ newID' = [newID EXCEPT ![c] = idCounter + 1]
          /\ UNCHANGED <<directory, readers, streamed, moment>>
      BY <1>2 DEF US!Lock, US!To
    <2>2. UsersTypeOK'
      BY <2>1 DEF UsersTypeOK
    <2>3. LockHeld'
      BY <2>1 DEF UsersTypeOK, LockHeld
    <2>4. newID'[c] = idCounter + 1 /\ \A d \in Calls : d # c => rpc'[d] = rpc[d]
      BY <2>1 DEF UsersTypeOK
    <2>5. \A i \in 1..idCounter' : i \in directory' \/ \E d \in writer' : newID'[d] = i
      BY <2>1, <2>4 DEF UsersTypeOK, IDsGivenOnce
    <2>6. IDsGivenOnce'
      BY <2>1, <2>4, <2>5 DEF UsersTypeOK, LockHeld, IDsGivenOnce
    <2> QED
      BY <2>2, <2>3, <2>6
  <1>3. CASE US!Store(c)
    <2>1. /\ rpc[c] = "store" /\ c \in writer /\ writer = {c} /\ writer' = {} /\ readers = {}
          /\ rpc' = [rpc EXCEPT ![c] = "idle"] /\ newID' = [newID EXCEPT ![c] = 0]
          /\ directory' = directory \union {newID[c]}
          /\ UNCHANGED <<idCounter, readers, streamed, moment>>
      BY <1>3 DEF US!Store, US!To, LockHeld
    <2>2. UsersTypeOK'
      BY <2>1 DEF UsersTypeOK
    <2>3. LockHeld'
      BY <2>1 DEF UsersTypeOK, LockHeld
    <2>4. \A d \in Calls : rpc'[d] # "list"
      BY <2>1 DEF UsersTypeOK, LockHeld
    <2>5. IDsGivenOnce'
      BY <2>1, <2>4 DEF UsersTypeOK, IDsGivenOnce
    <2> QED
      BY <2>2, <2>3, <2>5
  <1> QED
    BY <1>1, <1>2, <1>3

LEMMA ReaderKeeps ==
  ASSUME UsersInv, NEW c \in Calls,
         \/ US!RLock(c, "get") \/ US!RLock(c, "list")
         \/ US!GetUser(c) \/ US!Send(c) \/ US!ListEnds(c) \/ US!StreamBreaks(c)
  PROVE  UsersInv'
  <1> USE DEF UsersInv
  <1>1. ASSUME NEW goal \in {"get", "list"}, US!RLock(c, goal) PROVE UsersInv'
    <2>1. /\ rpc[c] = "idle" /\ writer = {} /\ readers' = readers \union {c}
          /\ rpc' = [rpc EXCEPT ![c] = goal] /\ moment' = [moment EXCEPT ![c] = directory]
          /\ UNCHANGED <<directory, idCounter, writer, newID, streamed>>
      BY <1>1 DEF US!RLock, US!To
    <2>2. UsersTypeOK'
      BY <2>1 DEF UsersTypeOK
    <2>3. LockHeld'
      BY <2>1 DEF UsersTypeOK, LockHeld
    <2>4. moment'[c] = directory /\ streamed[c] = {}
      BY <2>1 DEF UsersTypeOK, IDsGivenOnce
    <2>5. IDsGivenOnce'
      BY <2>1, <2>4 DEF UsersTypeOK, LockHeld, IDsGivenOnce
    <2> QED
      BY <2>2, <2>3, <2>5
  <1>2. CASE US!GetUser(c) \/ US!ListEnds(c) \/ US!StreamBreaks(c)
    <2>1. /\ rpc[c] \in {"get", "list"} /\ readers' = readers \ {c}
          /\ rpc' = [rpc EXCEPT ![c] = "idle"]
          /\ streamed' = [streamed EXCEPT ![c] = {}] /\ moment' = [moment EXCEPT ![c] = {}]
          /\ UNCHANGED <<directory, idCounter, writer, newID>>
      BY <1>2 DEF US!GetUser, US!ListEnds, US!StreamBreaks, US!RUnlock, US!To
    <2> QED
      BY <2>1 DEF UsersTypeOK, LockHeld, IDsGivenOnce
  <1>3. CASE US!Send(c)
    <2>1. PICK u \in directory \ streamed[c] :
             streamed' = [streamed EXCEPT ![c] = @ \union {u}]
      BY <1>3 DEF US!Send
    <2>2. rpc[c] = "list" /\ UNCHANGED <<directory, idCounter, rpc, readers, writer, newID, moment>>
      BY <1>3 DEF US!Send, US!lock
    <2>3. UsersTypeOK' /\ LockHeld'
      BY <2>1, <2>2 DEF UsersTypeOK, LockHeld
    <2>4. /\ streamed'[c] = streamed[c] \union {u}
          /\ \A d \in Calls : d # c => streamed'[d] = streamed[d]
      BY <2>1 DEF UsersTypeOK
    <2>5. IDsGivenOnce'
      BY <2>2, <2>4 DEF IDsGivenOnce
    <2> QED
      BY <2>3, <2>5
  <1> QED
    BY <1>1, <1>2, <1>3

LEMMA UsersNextInv == UsersInv /\ [US!Next]_(US!vars) => UsersInv'
  <1> SUFFICES ASSUME UsersInv, [US!Next]_(US!vars) PROVE UsersInv'
    OBVIOUS
  <1>1. CASE UNCHANGED US!vars
    BY <1>1 DEF US!vars, US!lock, UsersInv, UsersTypeOK, LockHeld, IDsGivenOnce
  <1> QED
    BY <1>1, WriterKeeps, ReaderKeeps DEF US!Next

(* A list streams the users of one moment, and every id is of one user,       *)
(* stored or about to be, whatever RPCs overlap.                              *)
THEOREM ListsAreOfOneMoment == US!Spec => []ListsOneMoment
  <1>1. UsersInv => ListsOneMoment
    BY DEF UsersInv, UsersTypeOK, LockHeld, IDsGivenOnce, ListsOneMoment, US!ListsOneMoment
  <1> QED
    BY <1>1, UsersInitInv, UsersNextInv, PTL DEF US!Spec

------------------------------------------------------------------------------
(* MessageConsumers                                                           *)

LEMMA SameCardinality == \A S : MQ!Cardinality(S) = Cardinality(S)
  BY DEF MQ!Cardinality, Cardinality

NSQTypeOK ==
    /\ attempts \in [Orders -> Nat] /\ handled \in BOOLEAN
    /\ queue \subseteq Orders /\ inFlight \subseteq Orders /\ finished \subseteq Orders
    /\ IsFiniteSet(inFlight)

(* Nothing is in two of nsqd's states, and what was ever delivered is in one. *)
InOneState ==
    /\ queue \intersect inFlight = {} /\ (queue \union inFlight) \intersect finished = {}
    /\ \A m \in Orders : attempts[m] > 0 => m \in queue \union inFlight \union finished
    /\ Cardinality(inFlight) <= MaxInFlight

(* An answer that is still to be sent is about what has been processed.       *)
Answered ==
    /\ handled => handling \ Garbled \subseteq handledOnce
    /\ handledOnce \intersect Garbled = {}
    /\ \A m \in finished : m \in handledOnce \/ attempts[m] > MaxAttempts

NSQInv == NSQTypeOK /\ InOneState /\ Answered

LEMMA NSQInitInv == MQ!NSQInit => NSQInv
  <1> SUFFICES ASSUME MQ!NSQInit PROVE NSQInv
    OBVIOUS
  <1>1. IsFiniteSet(inFlight) /\ Cardinality(inFlight) = 0 /\ MaxInFlight \in Nat
    BY FS_EmptySet, ServicesAssumption DEF MQ!NSQInit
  <1>2. NSQTypeOK /\ Answered
    BY <1>1 DEF MQ!NSQInit, NSQTypeOK, Answered
  <1>3. InOneState
    BY <1>1 DEF MQ!NSQInit, InOneState
  <1> QED
    BY <1>2, <1>3 DEF NSQInv

LEMMA NSQNextInv == NSQInv /\ [MQ!NSQNext]_(MQ!nsqVars) => NSQInv'
  <1> SUFFICES ASSUME NSQInv, [MQ!NSQNext]_(MQ!nsqVars) PROVE NSQInv'
    OBVIOUS
  <1> USE ServicesAssumption DEF NSQInv
  <1>1. ASSUME inFlight' \subseteq inFlight
        PROVE  IsFiniteSet(inFlight') /\ Cardinality(inFlight') <= MaxInFlight
    <2>1. inFlight' \in SUBSET inFlight /\ IsFiniteSet(inFlight)
      BY <1>1 DEF NSQTypeOK
    <2>2. IsFiniteSet(inFlight') /\ Cardinality(inFlight') <= Cardinality(inFlight)
      BY <2>1, FS_Subset
    <2> QED
      BY <2>1, <2>2, FS_CardinalityType DEF InOneState
  <1>2. ASSUME NEW m \in Orders, MQ!Publish(m) PROVE NSQInv'
    BY <1>1, <1>2 DEF MQ!Publish, NSQTypeOK, InOneState, Answered
  <1>3. ASSUME NEW m \in Orders, MQ!Deliver(m) PROVE NSQInv'
    <2>1. /\ m \in queue /\ m \notin inFlight /\ Cardinality(inFlight) < MaxInFlight
          /\ queue' = queue \ {m} /\ inFlight' = inFlight \union {m}
          /\ UNCHANGED <<finished, handling, handled, handledOnce, running>>
      BY <1>3, SameCardinality DEF MQ!Deliver, InOneState
    <2>2. IsFiniteSet(inFlight') /\ Cardinality(inFlight') = Cardinality(inFlight) + 1
      BY <2>1, FS_AddElement DEF NSQTypeOK
    <2>3. Cardinality(inFlight) \in Nat
      BY FS_CardinalityType DEF NSQTypeOK
    <2>4. Cardinality(inFlight') <= MaxInFlight
      BY <2>1, <2>2, <2>3
    <2>5. /\ attempts' \in [Orders -> Nat]
          /\ \A n \in Orders : attempts'[n] >= attempts[n] /\ (n # m => attempts'[n] = attempts[n])
      BY <1>3 DEF MQ!Deliver, NSQTypeOK
    <2>6. NSQTypeOK' /\ InOneState'
      BY <2>1, <2>2, <2>4, <2>5 DEF NSQTypeOK, InOneState
    <2>7. Answered'
      BY <2>1, <2>5 DEF NSQTypeOK, Answered
    <2> QED
      BY <2>6, <2>7
  <1>4. ASSUME NEW m \in Orders, MQ!GiveUp(m) PROVE NSQInv'
    BY <1>1, <1>4 DEF MQ!GiveUp, NSQTypeOK, InOneState, Answered
  <1>5. ASSUME NEW m \in Orders, MQ!HandleMessage(m) PROVE NSQInv'
    BY <1>1, <1>5 DEF MQ!HandleMessage, NSQTypeOK, InOneState, Answered
  <1>6. ASSUME NEW m \in Orders, MQ!TakeBack(m) PROVE NSQInv'
    BY <1>1, <1>6 DEF MQ!TakeBack, NSQTypeOK, InOneState, Answered
  <1>7. CASE MQ!Handle
    BY <1>1, <1>7 DEF MQ!Handle, NSQTypeOK, InOneState, Answered
  <1>8. CASE MQ!Answer
    BY <1>1, <1>8 DEF MQ!Answer, NSQTypeOK, InOneState, Answered
  <1>9. CASE MQ!Exit
    BY <1>1, <1>9 DEF MQ!Exit, NSQTypeOK, InOneState, Answered
  <1>10. CASE MQ!RestartNSQ \/ UNCHANGED MQ!nsqVars
    BY <1>1, <1>10 DEF MQ!RestartNSQ, MQ!nsqVars, NSQTypeOK, InOneState, Answered
  <1> QED
    BY <1>2, <1>3, <1>4, <1>5, <1>6, <1>7, <1>8, <1>9, <1>10 DEF MQ!NSQNext

Copies(m) == {i \in 1..Len(processed) : processed[i] = m}

KafkaTypeOK ==
    /\ position \in Nat \ {0} /\ committed \in Nat \ {0} /\ inHand \in Nat /\ crashes \in Nat
    /\ loop \in {"check", "read", "got", "closed", "crashed"}
    /\ processed \in Seq(Nat)

(* The group's offset is never ahead of the consumer's, nor behind it once    *)
(* the consumer has closed; in hand is the last message fetched, or none.     *)
Offsets == /\ committed <= position
           /\ loop = "closed" => committed = position
           /\ inHand = IF loop = "got" THEN position - 1 ELSE 0
           /\ loop = "crashed" => crashes > 0

PassedOver == \A m \in 1..(position - 1) :
    m \in MQ!ToSet(processed) \union Malformed \union abandoned \union {inHand}

InOrder == crashes = 0 =>
    /\ \A i, j \in 1..Len(processed) : i < j => processed[i] < processed[j]
    /\ \A i \in 1..Len(processed) :
          processed[i] < position /\ (loop = "got" => processed[i] < inHand)

(* One crash, one more time: a message behind the position that is not in     *)
(* hand has had its turn since the last crash.                                *)
Turns(m) ==
    IF m < position /\ (loop = "got" => m # inHand) /\ loop # "crashed" THEN 1 ELSE 0

OncePerCrash == \A m \in Nat : Cardinality(Copies(m)) <= crashes + Turns(m)

KafkaInv == KafkaTypeOK /\ Offsets /\ PassedOver /\ InOrder /\ OncePerCrash

LEMMA CopiesFinite == ASSUME KafkaTypeOK, NEW m
                      PROVE  IsFiniteSet(Copies(m)) /\ Cardinality(Copies(m)) \in Nat
  <1>1. Copies(m) \in SUBSET (1..Len(processed)) /\ Len(processed) \in Nat
    BY DEF Copies, KafkaTypeOK
  <1>2. IsFiniteSet(1..Len(processed))
    BY <1>1, FS_Interval
  <1>3. IsFiniteSet(Copies(m))
    BY <1>1, <1>2, FS_Subset
  <1> QED
    BY <1>3, FS_CardinalityType

LEMMA KafkaInitInv == MQ!KafkaInit => KafkaInv
  <1> SUFFICES ASSUME MQ!KafkaInit PROVE KafkaInv
    OBVIOUS
  <1>1. KafkaTypeOK /\ Offsets /\ PassedOver /\ InOrder
    BY DEF MQ!KafkaInit, KafkaTypeOK, Offsets, PassedOver, InOrder
  <1>2. \A m : Copies(m) = {}
    BY DEF MQ!KafkaInit, Copies
  <1> QED
    BY <1>1, <1>2, FS_EmptySet DEF MQ!KafkaInit, KafkaInv, OncePerCrash, Turns

(* A step that prints nothing keeps the copies.                               *)
LEMMA NothingPrinted ==
  ASSUME KafkaInv, UNCHANGED processed, KafkaTypeOK',
         \A m \in Nat : crashes + Turns(m) <= crashes' + Turns(m)'
  PROVE  OncePerCrash'
  <1>1. \A m : Copies(m)' = Copies(m)
    BY DEF Copies
  <1> SUFFICES ASSUME NEW m \in Nat PROVE Cardinality(Copies(m)') <= crashes' + Turns(m)'
    BY DEF OncePerCrash
  <1>2. Turns(m) \in Nat /\ Turns(m)' \in Nat /\ crashes \in Nat /\ crashes' \in Nat
    BY DEF Turns, KafkaInv, KafkaTypeOK
  <1>3. Cardinality(Copies(m)) \in Nat /\ Cardinality(Copies(m)) <= crashes + Turns(m)
    BY CopiesFinite DEF KafkaInv, OncePerCrash
  <1> QED
    BY <1>1, <1>2, <1>3

LEMMA ProcessKeeps == ASSUME KafkaInv, MQ!Process PROVE KafkaInv'
  <1>1. /\ loop = "got" /\ loop' = "check" /\ inHand' = 0 /\ inHand = position - 1
        /\ UNCHANGED <<produced, position, committed, signal, abandoned, crashes>>
    BY DEF MQ!Process, KafkaInv, Offsets
  <1>2. inHand \in Nat
    BY DEF KafkaInv, KafkaTypeOK
  <1>3. CASE inHand \in Malformed
    <2>1. UNCHANGED processed
      BY <1>3 DEF MQ!Process
    <2>2. KafkaTypeOK' /\ Offsets' /\ PassedOver' /\ InOrder'
      BY <1>1, <1>2, <1>3, <2>1 DEF KafkaInv, KafkaTypeOK, Offsets, PassedOver, InOrder
    <2>3. \A m \in Nat : crashes + Turns(m) <= crashes' + Turns(m)'
      BY <1>1, <1>2 DEF Turns, KafkaInv, KafkaTypeOK
    <2> QED
      BY <2>1, <2>2, <2>3, NothingPrinted DEF KafkaInv
  <1>4. CASE inHand \notin Malformed
    <2>1. /\ processed' = Append(processed, inHand) /\ processed' \in Seq(Nat)
          /\ Len(processed') = Len(processed) + 1 /\ processed'[Len(processed) + 1] = inHand
          /\ \A i \in 1..Len(processed) : processed'[i] = processed[i]
      BY <1>4, <1>2 DEF MQ!Process, KafkaInv, KafkaTypeOK
    <2>2. Len(processed) \in Nat
      BY DEF KafkaInv, KafkaTypeOK
    <2>3. KafkaTypeOK' /\ Offsets'
      BY <1>1, <2>1 DEF KafkaInv, KafkaTypeOK, Offsets
    <2>4. MQ!ToSet(processed') = MQ!ToSet(processed) \union {inHand}
      BY <2>1, <2>2 DEF MQ!ToSet, KafkaInv, KafkaTypeOK
    <2>5. PassedOver'
      BY <1>1, <2>4 DEF KafkaInv, PassedOver
    <2>6. InOrder'
      BY <1>1, <1>2, <2>1, <2>2 DEF KafkaInv, KafkaTypeOK, InOrder
    <2>7. ASSUME NEW m \in Nat PROVE Cardinality(Copies(m)') <= crashes' + Turns(m)'
      <3>1. IsFiniteSet(Copies(m)) /\ Cardinality(Copies(m)) \in Nat
            /\ Cardinality(Copies(m)) <= crashes + Turns(m) /\ crashes \in Nat
        BY CopiesFinite DEF KafkaInv, OncePerCrash, KafkaTypeOK
      <3>2. CASE m = inHand
        <4>1. Copies(m)' = Copies(m) \union {Len(processed) + 1} /\ Len(processed) + 1 \notin Copies(m)
          BY <2>1, <2>2, <3>2 DEF Copies
        <4>2. Cardinality(Copies(m)') = Cardinality(Copies(m)) + 1
          BY <3>1, <4>1, FS_AddElement
        <4>3. Turns(m) = 0 /\ Turns(m)' = 1
          BY <1>1, <3>2 DEF Turns, KafkaInv, KafkaTypeOK, Offsets
        <4> QED
          BY <1>1, <3>1, <4>2, <4>3
      <3>3. CASE m # inHand
        <4>1. Copies(m)' = Copies(m)
          BY <2>1, <2>2, <3>3 DEF Copies
        <4>2. Turns(m) \in Nat /\ Turns(m)' \in Nat /\ Turns(m) <= Turns(m)'
          BY <1>1, <3>3 DEF Turns, KafkaInv, KafkaTypeOK
        <4> QED
          BY <1>1, <3>1, <4>1, <4>2
      <3> QED
        BY <3>2, <3>3
    <2> QED
      BY <2>3, <2>5, <2>6, <2>7 DEF KafkaInv, OncePerCrash
  <1> QED
    BY <1>3, <1>4

LEMMA KafkaNextInv == KafkaInv /\ [MQ!KafkaNext]_(MQ!kafkaVars) => KafkaInv'
  <1> SUFFICES ASSUME KafkaInv, [MQ!KafkaNext]_(MQ!kafkaVars), ~MQ!Process PROVE KafkaInv'
    BY ProcessKeeps
  <1> USE DEF MQ!consumer
  <1>1. UNCHANGED processed
    BY DEF MQ!KafkaNext, MQ!kafkaVars, MQ!Produce, MQ!Signal, MQ!Check, MQ!Close, MQ!ReadMessage,
           MQ!ReadFails, MQ!AutoCommit, MQ!Crash, MQ!Restart
  <1>2. CASE MQ!Produce \/ MQ!Signal \/ MQ!Check \/ MQ!ReadFails \/ UNCHANGED MQ!kafkaVars
    <2>1. KafkaTypeOK' /\ Offsets' /\ PassedOver' /\ InOrder'
      BY <1>1, <1>2 DEF MQ!Produce, MQ!Signal, MQ!Check, MQ!ReadFails, MQ!kafkaVars, KafkaInv,
                        KafkaTypeOK, Offsets, PassedOver, InOrder
    <2>2. \A m \in Nat : crashes + Turns(m) <= crashes' + Turns(m)'
      BY <1>2 DEF MQ!Produce, MQ!Signal, MQ!Check, MQ!ReadFails, MQ!kafkaVars, KafkaInv,
                  KafkaTypeOK, Turns
    <2> QED
      BY <1>1, <2>1, <2>2, NothingPrinted DEF KafkaInv
  <1>3. CASE MQ!Close \/ MQ!AutoCommit
    <2>1. KafkaTypeOK' /\ Offsets' /\ PassedOver' /\ InOrder'
      BY <1>1, <1>3 DEF MQ!Close, MQ!AutoCommit, KafkaInv, KafkaTypeOK, Offsets, PassedOver, InOrder
    <2>2. \A m \in Nat : crashes + Turns(m) <= crashes' + Turns(m)'
      BY <1>3 DEF MQ!Close, MQ!AutoCommit, KafkaInv, KafkaTypeOK, Turns
    <2> QED
      BY <1>1, <2>1, <2>2, NothingPrinted DEF KafkaInv
  <1>4. CASE MQ!ReadMessage
    <2>1. KafkaTypeOK' /\ Offsets' /\ PassedOver' /\ InOrder'
      BY <1>1, <1>4 DEF MQ!ReadMessage, KafkaInv, KafkaTypeOK, Offsets, PassedOver, InOrder
    <2>2. \A m \in Nat : crashes + Turns(m) <= crashes' + Turns(m)'
      BY <1>4 DEF MQ!ReadMessage, KafkaInv, KafkaTypeOK, Offsets, Turns
    <2> QED
      BY <1>1, <2>1, <2>2, NothingPrinted DEF KafkaInv
  <1>5. CASE MQ!Crash
    <2>1. KafkaTypeOK' /\ Offsets' /\ PassedOver' /\ InOrder'
      BY <1>1, <1>5 DEF MQ!Crash, KafkaInv, KafkaTypeOK, Offsets, PassedOver, InOrder
    <2>2. \A m \in Nat : crashes + Turns(m) <= crashes' + Turns(m)'
      BY <1>5 DEF MQ!Crash, KafkaInv, KafkaTypeOK, Turns
    <2> QED
      BY <1>1, <2>1, <2>2, NothingPrinted DEF KafkaInv
  <1>6. CASE MQ!Restart
    <2>1. KafkaTypeOK' /\ Offsets' /\ PassedOver' /\ InOrder'
      BY <1>1, <1>6 DEF MQ!Restart, KafkaInv, KafkaTypeOK, Offsets, PassedOver, InOrder
    <2>2. \A m \in Nat : crashes + Turns(m) <= crashes' + Turns(m)'
      BY <1>6 DEF MQ!Restart, KafkaInv, KafkaTypeOK, Offsets, Turns
    <2> QED
      BY <1>1, <2>1, <2>2, NothingPrinted DEF KafkaInv
  <1> QED
    BY <1>2, <1>3, <1>4, <1>5, <1>6 DEF MQ!KafkaNext

(* Stops, restarts, read errors, late answers and malformed messages lose and *)
(* repeat no delivery: what Kafka's consumer passed over is printed, malformed *)
(* or was in hand at a crash, and what left nsqd was handled or given up.      *)
THEOREM DeliveriesAreAccountedFor ==
  MQ!KafkaSpec /\ MQ!NSQSpec => []DeliveriesAccountedFor
  <1>1. KafkaInv => MQ!LosesOnlyTheOneInHand
    <2> SUFFICES ASSUME KafkaInv PROVE MQ!LosesOnlyTheOneInHand
      OBVIOUS
    <2>1. ASSUME NEW m \in MQ!ToSet(processed) PROVE Cardinality(Copies(m)) <= 1 + crashes
      <3>1. m \in Nat
        BY DEF MQ!ToSet, KafkaInv, KafkaTypeOK
      <3>2. Cardinality(Copies(m)) \in Nat /\ Cardinality(Copies(m)) <= crashes + Turns(m)
        BY <3>1, CopiesFinite DEF KafkaInv, OncePerCrash
      <3>3. Turns(m) \in Nat /\ Turns(m) <= 1 /\ crashes \in Nat
        BY DEF Turns, KafkaInv, KafkaTypeOK
      <3> QED
        BY <3>2, <3>3
    <2> QED
      BY <2>1, SameCardinality DEF Copies, MQ!LosesOnlyTheOneInHand, KafkaInv, PassedOver, InOrder
  <1>2. NSQInv => MQ!FinishedMeansHandled
    BY SameCardinality DEF NSQInv, NSQTypeOK, InOneState, Answered, MQ!FinishedMeansHandled
  <1>3. KafkaInv /\ NSQInv => DeliveriesAccountedFor
    BY <1>1, <1>2 DEF DeliveriesAccountedFor
  <1> QED
    BY <1>3, KafkaInitInv, KafkaNextInv, NSQInitInv, NSQNextInv, PTL DEF MQ!KafkaSpec, MQ!NSQSpec

------------------------------------------------------------------------------
(* ServiceRegistry                                                            *)

ServiceInstance == [id : Instances, healthy : BOOLEAN, lastSeen : Nat]

RegistryTypeOK ==
    /\ clock \in Nat /\ checked \in Nat /\ stopped \in BOOLEAN
    /\ services \in [Names -> Seq(ServiceInstance)]
    /\ beat \in [Instances -> Nat]
    /\ checked <= clock

Fresh(x) == x.healthy <=> checked - x.lastSeen <= Timeout

(* Another entry has the ID of this one.                                      *)
Second(n, k) == \E m \in Names : \E l \in DOMAIN services[m] :
    (m # n \/ l # k) /\ services[m][l].id = services[n][k].id

(* Of two entries with one ID the heartbeats may all go to the other.         *)
EntriesHold == \A n \in Names : \A k \in DOMAIN services[n] :
    /\ Fresh(services[n][k])
    /\ services[n][k].lastSeen = beat[services[n][k].id] \/ Second(n, k)

(* The checker had looked at time, or the entry has been renewed since.       *)
HandedRecent(n, k, time) == time - services[n][k].lastSeen <= Timeout

HandedHold == \A h \in handed :
    /\ h[1][1] \in Names /\ h[1][2] \in DOMAIN services[h[1][1]]
    /\ h[2] \in Nat /\ h[3] \in Nat /\ h[3] <= h[2] /\ h[2] <= clock
    /\ HandedRecent(h[1][1], h[1][2], h[3])

RegistryInv == RegistryTypeOK /\ EntriesHold /\ HandedHold

LEMMA RegistryInitInv == SR!Init => RegistryInv
  <1> SUFFICES ASSUME SR!Init PROVE RegistryInv
    OBVIOUS
  <1>1. RegistryTypeOK
    <2>1. services \in [Names -> Seq(ServiceInstance)] /\ beat \in [Instances -> Nat]
      BY DEF SR!Init
    <2>2. stopped \in BOOLEAN
      BY DEF SR!Init
    <2>3. clock \in Nat /\ checked \in Nat /\ checked <= clock
      BY DEF SR!Init
    <2> QED
      BY <2>1, <2>2, <2>3 DEF RegistryTypeOK
  <1>2. EntriesHold /\ HandedHold
    BY DEF SR!Init, EntriesHold, HandedHold
  <1> QED
    BY <1>1, <1>2 DEF RegistryInv

LEMMA RenewedEntry ==
  ASSUME NEW x \in ServiceInstance
  PROVE  SR!Renew(x) = [id |-> x.id, healthy |-> TRUE, lastSeen |-> clock]
  <1>1. x = [id |-> x.id, healthy |-> x.healthy, lastSeen |-> x.lastSeen]
    BY DEF ServiceInstance
  <1> DEFINE y == [x EXCEPT !.lastSeen = clock]
  <1>2. y = [id |-> x.id, healthy |-> x.healthy, lastSeen |-> clock]
    BY <1>1
  <1>3. SR!Renew(x) = [y EXCEPT !.healthy = TRUE]
    BY DEF SR!Renew
  <1> HIDE DEF y
  <1>4. ASSUME NEW v PROVE [y EXCEPT !.healthy = v] = [id |-> x.id, healthy |-> v, lastSeen |-> clock]
    BY <1>2
  <1> QED
    BY <1>3, <1>4

(* What the checker's round makes of an entry.                                *)
Judged(x) == IF SR!Expired(x) THEN [x EXCEPT !.healthy = FALSE] ELSE x

LEMMA CheckedEntry ==
  ASSUME NEW x \in ServiceInstance, clock \in Nat
  PROVE  LET y == Judged(x)
         IN  /\ y \in ServiceInstance /\ y.id = x.id /\ y.lastSeen = x.lastSeen
             /\ y.healthy <=> x.healthy /\ clock - x.lastSeen <= Timeout
  <1> DEFINE y == Judged(x)
  <1> USE ServicesAssumption DEF ServiceInstance, Judged
  <1>1. CASE SR!Expired(x)
    <2>1. y = [x EXCEPT !.healthy = FALSE]
      BY <1>1
    <2>2. y \in ServiceInstance /\ y.id = x.id /\ y.lastSeen = x.lastSeen /\ y.healthy = FALSE
      BY <2>1
    <2>3. ~(clock - x.lastSeen <= Timeout)
      BY <1>1 DEF SR!Expired
    <2> QED
      BY <2>2, <2>3
  <1>2. CASE ~SR!Expired(x)
    <2>1. y = x
      BY <1>2
    <2>2. x.healthy => clock - x.lastSeen <= Timeout
      BY <1>2 DEF SR!Expired
    <2> QED
      BY <2>1, <2>2
  <1> QED
    BY <1>1, <1>2

LEMMA PresentEntries ==
  ASSUME NEW e
  PROVE  e \in SR!Present <=> /\ e = <<e[1], e[2]>> /\ e[1] \in Names
                              /\ e[2] \in DOMAIN services[e[1]]
  BY DEF SR!Present

(* A step that registers an entry or renews one: every other entry is kept,   *)
(* the one of ID id that was seen now is healthy.                             *)
SeesEntry(id, name, p) ==
    /\ RegistryTypeOK' /\ UNCHANGED <<clock, checked, handed, stopped>>
    /\ beat' = [beat EXCEPT ![id] = clock]
    /\ p \in DOMAIN services'[name]
    /\ services'[name][p] = [id |-> id, healthy |-> TRUE, lastSeen |-> clock]
    /\ \A n \in Names : \A k \in DOMAIN services[n] :
          k \in DOMAIN services'[n] /\ services'[n][k].id = services[n][k].id
    /\ \A n \in Names : \A k \in DOMAIN services'[n] :
          (n = name /\ k = p) \/ (k \in DOMAIN services[n] /\ services'[n][k] = services[n][k])

LEMMA SeenNow ==
  ASSUME RegistryInv, NEW id \in Instances, NEW name \in Names, NEW p, SeesEntry(id, name, p)
  PROVE  RegistryInv'
  <1> USE ServicesAssumption DEF RegistryInv, SeesEntry
  <1>1. EntriesHold'
    <2> SUFFICES ASSUME NEW n \in Names, NEW k \in DOMAIN services'[n]
                 PROVE  /\ Fresh(services[n][k])'
                        /\ services'[n][k].lastSeen = beat'[services'[n][k].id] \/ Second(n, k)'
      BY DEF EntriesHold
    <2>1. CASE n = name /\ k = p
      BY <2>1 DEF Fresh, RegistryTypeOK
    <2>2. CASE ~(n = name /\ k = p)
      <3>1. k \in DOMAIN services[n] /\ services'[n][k] = services[n][k]
        BY <2>2
      <3>2. Fresh(services[n][k])'
        BY <3>1 DEF Fresh, EntriesHold
      <3>3. CASE services[n][k].id = id
        BY <2>2, <3>1, <3>2, <3>3 DEF Second
      <3>4. CASE services[n][k].id # id
        <4>1. services[n] \in Seq(ServiceInstance)
          BY DEF RegistryTypeOK
        <4>2. services[n][k] \in ServiceInstance
          BY <3>1, <4>1
        <4>3. services[n][k].id \in Instances
          BY <4>2 DEF ServiceInstance
        <4>4. beat'[services[n][k].id] = beat[services[n][k].id]
          BY <3>4, <4>3 DEF RegistryTypeOK
        <4>5. Second(n, k) => Second(n, k)'
          BY <3>1 DEF Second
        <4> QED
          BY <3>1, <3>2, <4>4, <4>5 DEF EntriesHold
      <3> QED
        BY <3>3, <3>4
    <2> QED
      BY <2>1, <2>2
  <1>2. HandedHold'
    <2> SUFFICES ASSUME NEW h \in handed
                 PROVE  /\ h[1][1] \in Names /\ h[1][2] \in DOMAIN services'[h[1][1]]
                        /\ h[2] \in Nat /\ h[3] \in Nat /\ h[3] <= h[2] /\ h[2] <= clock
                        /\ HandedRecent(h[1][1], h[1][2], h[3])'
      BY DEF HandedHold
    <2>1. /\ h[1][1] \in Names /\ h[1][2] \in DOMAIN services[h[1][1]]
          /\ h[2] \in Nat /\ h[3] \in Nat /\ h[3] <= h[2] /\ h[2] <= clock
          /\ HandedRecent(h[1][1], h[1][2], h[3])
      BY DEF HandedHold
    <2>2. h[1][2] \in DOMAIN services'[h[1][1]]
      BY <2>1
    <2>3. CASE h[1][1] = name /\ h[1][2] = p
      BY <2>1, <2>2, <2>3 DEF HandedRecent, RegistryTypeOK
    <2>4. CASE ~(h[1][1] = name /\ h[1][2] = p)
      BY <2>1, <2>2, <2>4 DEF HandedRecent
    <2> QED
      BY <2>1, <2>2, <2>3, <2>4
  <1> QED
    BY <1>1, <1>2

LEMMA RegisterKeeps ==
  ASSUME RegistryInv, NEW id \in Instances, NEW name \in Names, SR!Register(id, name)
  PROVE  RegistryInv'
  <1> DEFINE new == [id |-> id, healthy |-> TRUE, lastSeen |-> clock]
             p == Len(services[name]) + 1
  <1>1. /\ services' = [services EXCEPT ![name] = Append(@, new)]
        /\ beat' = [beat EXCEPT ![id] = clock]
        /\ UNCHANGED <<clock, checked, handed, stopped>>
    BY DEF SR!Register
  <1>2. new \in ServiceInstance /\ services[name] \in Seq(ServiceInstance)
    BY DEF RegistryInv, RegistryTypeOK, ServiceInstance
  <1>3. /\ services'[name] = Append(services[name], new)
        /\ \A n \in Names : n # name => services'[n] = services[n]
    BY <1>1 DEF RegistryInv, RegistryTypeOK
  <1> HIDE DEF new
  <1>4. /\ p \in Nat /\ Append(services[name], new) \in Seq(ServiceInstance)
        /\ DOMAIN services[name] = 1..Len(services[name])
        /\ DOMAIN Append(services[name], new) = 1..p
        /\ Append(services[name], new)[p] = new
        /\ \A k \in DOMAIN services[name] : Append(services[name], new)[k] = services[name][k]
        /\ \A k \in 1..p : k = p \/ k \in 1..Len(services[name])
    BY <1>2
  <1>5. RegistryTypeOK'
    BY <1>1, <1>4 DEF RegistryInv, RegistryTypeOK
  <1>6. \A n \in Names : \A k \in DOMAIN services[n] :
            k \in DOMAIN services'[n] /\ services'[n][k].id = services[n][k].id
    BY <1>3, <1>4
  <1>7. \A n \in Names : \A k \in DOMAIN services'[n] :
            (n = name /\ k = p) \/ (k \in DOMAIN services[n] /\ services'[n][k] = services[n][k])
    BY <1>3, <1>4
  <1>8. p \in DOMAIN services'[name] /\ services'[name][p] = new
    BY <1>3, <1>4
  <1> HIDE DEF p
  <1> QED
    <2>1. SeesEntry(id, name, p)
      BY <1>1, <1>5, <1>6, <1>7, <1>8 DEF SeesEntry, new
    <2> QED
      BY <2>1, SeenNow

LEMMA HeartbeatKeeps ==
  ASSUME RegistryInv, NEW id \in Instances, SR!Heartbeat(id)
  PROVE  RegistryInv'
  <1>1. CASE UNCHANGED SR!vars
    BY <1>1 DEF SR!vars, RegistryInv, RegistryTypeOK, EntriesHold, HandedHold, Fresh, Second, HandedRecent
  <1>2. ASSUME NEW e \in SR!Found(id),
               services' = [services EXCEPT ![e[1]][e[2]] = SR!Renew(@)],
               beat' = [beat EXCEPT ![id] = clock],
               UNCHANGED <<clock, checked, handed, stopped>>
        PROVE  RegistryInv'
    <2> DEFINE n == e[1]
               k == e[2]
               new == [id |-> id, healthy |-> TRUE, lastSeen |-> clock]
    <2>1. n \in Names /\ k \in DOMAIN services[n] /\ services[n][k].id = id
      BY <1>2, PresentEntries DEF SR!Found, SR!At
    <2>2. services[n][k] \in ServiceInstance /\ services[n] \in Seq(ServiceInstance) /\ k \in Nat
      BY <2>1 DEF RegistryInv, RegistryTypeOK
    <2>3. SR!Renew(services[n][k]) = new
      BY <2>1, <2>2, RenewedEntry
    <2>4. /\ services'[n] = [services[n] EXCEPT ![k] = new]
          /\ \A m \in Names : m # n => services'[m] = services[m]
          /\ services' = [services EXCEPT ![n] = [services[n] EXCEPT ![k] = new]]
      BY <1>2, <2>1, <2>3 DEF RegistryInv, RegistryTypeOK
    <2>5. new \in ServiceInstance
      BY DEF ServiceInstance, RegistryInv, RegistryTypeOK
    <2> HIDE DEF n, k, new
    <2>6. [services[n] EXCEPT ![k] = new] \in Seq(ServiceInstance)
      BY <2>1, <2>2, <2>5
    <2>7. RegistryTypeOK'
      BY <1>2, <2>1, <2>4, <2>6 DEF RegistryInv, RegistryTypeOK
    <2>8. k \in DOMAIN services'[n] /\ services'[n][k] = new
      BY <2>1, <2>4
    <2>9. \A m \in Names : \A l \in DOMAIN services[m] :
             l \in DOMAIN services'[m] /\ services'[m][l].id = services[m][l].id
      BY <2>1, <2>4 DEF new
    <2>10. \A m \in Names : \A l \in DOMAIN services'[m] :
              (m = n /\ l = k) \/ (l \in DOMAIN services[m] /\ services'[m][l] = services[m][l])
      BY <2>1, <2>4
    <2> QED
      <3>1. SeesEntry(id, n, k)
        BY <1>2, <2>7, <2>8, <2>9, <2>10 DEF SeesEntry, new
      <3> QED
        BY <2>1, <3>1, SeenNow
  <1> QED
    BY <1>1, <1>2 DEF SR!Heartbeat

LEMMA CheckKeeps == ASSUME RegistryInv, SR!Check PROVE RegistryInv'
  <1> USE ServicesAssumption DEF RegistryInv
  <1>1. /\ checked' = clock /\ checked <= clock
        /\ services' = [n \in Names |-> SR!Checked(services[n])]
        /\ UNCHANGED <<clock, beat, handed, stopped>>
    BY DEF SR!Check, RegistryTypeOK
  <1>2. ASSUME NEW n \in Names
        PROVE  /\ services'[n] \in Seq(ServiceInstance)
               /\ DOMAIN services'[n] = DOMAIN services[n]
               /\ \A k \in DOMAIN services[n] :
                    /\ services'[n][k].id = services[n][k].id
                    /\ services'[n][k].lastSeen = services[n][k].lastSeen
                    /\ Fresh(services[n][k])'
    <2>1. services[n] \in Seq(ServiceInstance) /\ services'[n] = SR!Checked(services[n])
      BY <1>1 DEF RegistryTypeOK
    <2>2. DOMAIN services'[n] = DOMAIN services[n] /\ DOMAIN services[n] = 1..Len(services[n])
      BY <2>1 DEF SR!Checked
    <2>3. ASSUME NEW k \in DOMAIN services[n]
          PROVE  /\ services'[n][k] \in ServiceInstance
                 /\ services'[n][k].id = services[n][k].id
                 /\ services'[n][k].lastSeen = services[n][k].lastSeen
                 /\ services'[n][k].healthy <=>
                      services[n][k].healthy /\ clock - services[n][k].lastSeen <= Timeout
      <3>1. services[n][k] \in ServiceInstance
        BY <2>1
      <3>2. services'[n][k] = Judged(services[n][k])
        BY <2>1 DEF SR!Checked, Judged
      <3>3. clock \in Nat
        BY DEF RegistryTypeOK
      <3> DEFINE x == services[n][k]
                 y == Judged(x)
      <3>4. /\ y \in ServiceInstance /\ y.id = x.id /\ y.lastSeen = x.lastSeen
            /\ y.healthy <=> x.healthy /\ clock - x.lastSeen <= Timeout
        BY <3>1, <3>3, CheckedEntry
      <3> HIDE DEF y
      <3> QED
        BY <3>2, <3>4 DEF y
    <2>4. services'[n] \in Seq(ServiceInstance)
      <3>1. services'[n] = [k \in 1..Len(services[n]) |-> services'[n][k]]
        BY <2>1, <2>2 DEF SR!Checked
      <3>2. Len(services[n]) \in Nat /\ \A k \in 1..Len(services[n]) : services'[n][k] \in ServiceInstance
        BY <2>1, <2>2, <2>3
      <3> QED
        BY <3>1, <3>2
    <2>5. ASSUME NEW k \in DOMAIN services[n] PROVE Fresh(services[n][k])'
      <3>1. services[n][k] \in ServiceInstance /\ Fresh(services[n][k])
        BY <2>1 DEF EntriesHold
      <3> QED
        BY <1>1, <2>3, <3>1 DEF Fresh, ServiceInstance, RegistryTypeOK
    <2> QED
      BY <2>2, <2>3, <2>4, <2>5
  <1>3. RegistryTypeOK'
    <2>1. services' \in [Names -> Seq(ServiceInstance)]
      BY <1>1, <1>2
    <2> QED
      BY <1>1, <2>1 DEF RegistryTypeOK
  <1>4. EntriesHold'
    <2>1. \A n \in Names : \A k \in DOMAIN services[n] : Second(n, k) => Second(n, k)'
      BY <1>2 DEF Second
    <2> QED
      BY <1>1, <1>2, <2>1 DEF EntriesHold
  <1>5. HandedHold'
    <2>1. \A n \in Names : \A k \in DOMAIN services[n] : \A t : HandedRecent(n, k, t) => HandedRecent(n, k, t)'
      BY <1>2 DEF HandedRecent
    <2> QED
      BY <1>1, <1>2, <2>1 DEF HandedHold
  <1> QED
    BY <1>3, <1>4, <1>5

LEMMA RegistryNextInv == RegistryInv /\ [SR!Next]_(SR!vars) => RegistryInv'
  <1> SUFFICES ASSUME RegistryInv, [SR!Next]_(SR!vars) PROVE RegistryInv'
    OBVIOUS
  <1> USE DEF RegistryInv
  <1>1. ASSUME NEW name \in Names, SR!Discover(name) PROVE RegistryInv'
    <2>1. /\ handed' = {<<e, clock, checked>> : e \in {f \in SR!Present : f[1] = name /\ SR!At(f).healthy}}
          /\ UNCHANGED <<clock, checked, services, beat, stopped>>
      BY <1>1 DEF SR!Discover
    <2>2. RegistryTypeOK' /\ EntriesHold'
      BY <2>1 DEF RegistryTypeOK, EntriesHold, Fresh, Second
    <2>3. HandedHold'
      <3> SUFFICES ASSUME NEW h \in handed'
                   PROVE  /\ h[1][1] \in Names /\ h[1][2] \in DOMAIN services[h[1][1]]
                          /\ h[2] \in Nat /\ h[3] \in Nat /\ h[3] <= h[2] /\ h[2] <= clock
                          /\ HandedRecent(h[1][1], h[1][2], h[3])
        BY <2>1 DEF HandedHold, HandedRecent
      <3>1. PICK e \in SR!Present : h = <<e, clock, checked>> /\ SR!At(e).healthy
        BY <2>1
      <3>2. e[1] \in Names /\ e[2] \in DOMAIN services[e[1]] /\ services[e[1]][e[2]].healthy
        BY <3>1, PresentEntries DEF SR!At
      <3>3. Fresh(services[e[1]][e[2]])
        BY <3>2 DEF EntriesHold
      <3>4. HandedRecent(e[1], e[2], checked)
        BY <3>2, <3>3 DEF Fresh, HandedRecent
      <3> QED
        BY <3>1, <3>2, <3>4 DEF RegistryTypeOK
    <2> QED
      BY <2>2, <2>3
  <1>2. CASE SR!Tick \/ SR!Stop \/ UNCHANGED SR!vars
    <2>1. /\ UNCHANGED <<checked, services, beat, handed>> /\ clock' \in Nat /\ clock <= clock'
          /\ stopped' \in BOOLEAN
      <3>1. UNCHANGED <<checked, services, beat, handed>>
        BY <1>2 DEF SR!Tick, SR!Stop, SR!vars
      <3>2. clock' \in {clock, clock + 1} /\ clock \in Nat
        BY <1>2 DEF SR!Tick, SR!Stop, SR!vars, RegistryTypeOK
      <3>3. stopped' \in BOOLEAN
        BY <1>2 DEF SR!Tick, SR!Stop, SR!vars, RegistryTypeOK
      <3> QED
        BY <3>1, <3>2, <3>3
    <2>2. RegistryTypeOK' /\ EntriesHold'
      BY <2>1 DEF RegistryTypeOK, EntriesHold, Fresh, Second
    <2>3. HandedHold'
      BY <2>1 DEF RegistryTypeOK, HandedHold, HandedRecent
    <2> QED
      BY <2>2, <2>3
  <1> QED
    BY <1>1, <1>2, RegisterKeeps, HeartbeatKeeps, CheckKeeps DEF SR!Next

(* An entry is healthy exactly if the checker has not looked since its timeout *)
(* ran out, for every order of registrations, heartbeats, rounds of the        *)
(* checker, look-ups, time and the end of the checker; and whoever was handed  *)
(* an instance got one that had been silent for no longer than the timeout and *)
(* what the checker was late by.                                               *)
THEOREM HealthFollowsHeartbeats == SR!Spec => []HealthIsRecent
  <1>1. RegistryInv => HealthIsRecent
    <2> SUFFICES ASSUME RegistryInv PROVE SR!HealthIsRecent
      BY DEF HealthIsRecent
    <2> USE ServicesAssumption DEF RegistryInv
    <2>1. ASSUME NEW e \in SR!Present
          PROVE  /\ SR!At(e).healthy <=> checked - SR!At(e).lastSeen <= Timeout
                 /\ ~SR!At(e).healthy =>
                       SR!Twice(SR!At(e).id) \/ checked - beat[SR!At(e).id] > Timeout
      <3>1. e = <<e[1], e[2]>> /\ e[1] \in Names /\ e[2] \in DOMAIN services[e[1]]
        BY PresentEntries
      <3>2. Fresh(SR!At(e)) /\ SR!At(e) \in ServiceInstance
        BY <3>1 DEF EntriesHold, SR!At, RegistryTypeOK
      <3>3. SR!At(e).lastSeen = beat[SR!At(e).id] \/ Second(e[1], e[2])
        BY <3>1 DEF EntriesHold, SR!At
      <3>4. ASSUME Second(e[1], e[2]) PROVE SR!Twice(SR!At(e).id)
        <4>1. PICK m \in Names : \E l \in DOMAIN services[m] :
                 (m # e[1] \/ l # e[2]) /\ services[m][l].id = services[e[1]][e[2]].id
          BY <3>4 DEF Second
        <4>2. PICK l \in DOMAIN services[m] :
                 (m # e[1] \/ l # e[2]) /\ services[m][l].id = services[e[1]][e[2]].id
          BY <4>1
        <4>3. <<m, l>> \in SR!Present /\ <<m, l>> # e
          BY <3>1, <4>2, PresentEntries
        <4> QED
          BY <4>2, <4>3 DEF SR!Twice, SR!At
      <3> QED
        BY <3>2, <3>3, <3>4 DEF Fresh, ServiceInstance, RegistryTypeOK
    <2>2. ASSUME NEW h \in handed
          PROVE  h[2] - SR!At(h[1]).lastSeen <= Timeout + (h[2] - h[3])
      <3>1. /\ h[1][1] \in Names /\ h[1][2] \in DOMAIN services[h[1][1]]
            /\ h[2] \in Nat /\ h[3] \in Nat
            /\ h[3] - SR!At(h[1]).lastSeen <= Timeout
        BY DEF HandedHold, HandedRecent, SR!At
      <3>2. services[h[1][1]] \in Seq(ServiceInstance)
        BY <3>1 DEF RegistryTypeOK
      <3>3. SR!At(h[1]) \in ServiceInstance
        BY <3>1, <3>2 DEF SR!At
      <3>4. SR!At(h[1]).lastSeen \in Nat
        BY <3>3 DEF ServiceInstance
      <3> QED
        BY <3>1, <3>4, ServicesAssumption
    <2> QED
      BY <2>1, <2>2 DEF SR!HealthIsRecent
  <1> QED
    BY <1>1, RegistryInitInv, RegistryNextInv, PTL DEF SR!Spec

------------------------------------------------------------------------------
(* OrderTransaction                                                           *)

OrdersTypeOK ==
    /\ call \in [Runs -> {"create", "find", "begin", "exists", "insert", "commit", "list", "end"}]
    /\ result \in [Runs -> {"none", "order", "error"}]
    /\ DOMAIN userID = Runs /\ userID = [r \in Runs |-> userID[r]]
    /\ \A o \in orders : o.run \in Runs

OneUser == /\ \A u, v \in userIDs : u = v
           /\ \A r \in Runs : call[r] \in {"insert", "commit"} => userID[r] \in userIDs
           /\ \A o \in orders : o.user \in userIDs

(* A run that has not got past its commit has no order and no result.         *)
OneOrder == /\ \A r \in Runs : call[r] \notin {"list", "end"} => result[r] = "none"
            /\ \A r \in Runs : result[r] = "order" => \E o \in orders : o.run = r
            /\ \A o \in orders : result[o.run] # "none"
            /\ \A o, p \in orders : o.run = p.run => o = p

OrdersInv == OrdersTypeOK /\ OneUser /\ OneOrder

LEMMA OrdersInitInv == OT!Init => OrdersInv
  BY DEF OT!Init, OrdersInv, OrdersTypeOK, OneUser, OneOrder

LEMMA OrdersNextInv == OrdersInv /\ [OT!Next]_(OT!vars) => OrdersInv'
  <1> SUFFICES ASSUME OrdersInv, [OT!Next]_(OT!vars) PROVE OrdersInv'
    OBVIOUS
  <1> USE DEF OrdersInv
  <1>1. ASSUME NEW r \in Runs, OT!Create(r) PROVE OrdersInv'
    <2>1. /\ userIDs' = userIDs \/ (userIDs = {} /\ userIDs' = {serial + 1})
          /\ \A q \in Runs : q # r => call'[q] = call[q] /\ userID'[q] = userID[q]
          /\ call' \in [Runs -> {"create", "find", "begin", "exists", "insert", "commit", "list", "end"}]
          /\ call[r] = "create" /\ call'[r] \in {"find", "begin"}
          /\ UNCHANGED <<orders, result>>
      BY <1>1 DEF OT!Create, OT!Goes, OrdersTypeOK
    <2>2. DOMAIN userID' = Runs /\ userID' = [q \in Runs |-> userID'[q]]
      BY <1>1 DEF OT!Create, OrdersTypeOK
    <2> QED
      BY <2>1, <2>2 DEF OrdersTypeOK, OneUser, OneOrder
  <1>2. ASSUME NEW r \in Runs, OT!GetByEmail(r) PROVE OrdersInv'
    BY <1>2 DEF OT!GetByEmail, OT!Goes, OT!tables, OrdersTypeOK, OneUser, OneOrder
  <1>3. ASSUME NEW r \in Runs, OT!Begin(r) \/ OT!CheckUser(r) \/ OT!InsertOrder(r) PROVE OrdersInv'
    BY <1>3 DEF OT!Begin, OT!CheckUser, OT!InsertOrder, OT!Fails, OT!Goes, OT!tables, OrdersTypeOK, OneUser, OneOrder
  <1>4. ASSUME NEW r \in Runs, OT!Commit(r) PROVE OrdersInv'
    <2> DEFINE new == [run |-> r, user |-> userID[r]]
    <2>1. /\ call[r] = "commit" /\ call' = [call EXCEPT ![r] = "list"]
          /\ \/ result' = [result EXCEPT ![r] = "error"] /\ orders' \in {orders, orders \union {new}}
             \/ result' = [result EXCEPT ![r] = "order"] /\ orders' = orders \union {new}
          /\ UNCHANGED <<userIDs, serial, userID>>
      BY <1>4 DEF OT!Commit, OT!Fails, OT!Goes
    <2>2. userID[r] \in userIDs /\ result[r] = "none" /\ \A o \in orders : o.run # r
      BY <2>1 DEF OneUser, OneOrder
    <2>3. new.run = r /\ new.user = userID[r]
      OBVIOUS
    <2> HIDE DEF new
    <2>4. /\ \A q \in Runs : q # r => call'[q] = call[q] /\ result'[q] = result[q]
          /\ call'[r] = "list" /\ result'[r] \in {"order", "error"}
      BY <2>1 DEF OrdersTypeOK
    <2>5. OrdersTypeOK'
      BY <2>1, <2>3 DEF OrdersTypeOK
    <2>6. OneUser'
      BY <2>1, <2>2, <2>3, <2>4 DEF OneUser
    <2>7. OneOrder'
      BY <2>1, <2>2, <2>3, <2>4 DEF OneOrder, OrdersTypeOK
    <2> QED
      BY <2>5, <2>6, <2>7
  <1>5. ASSUME NEW r \in Runs, OT!List(r) \/ OT!Die(r) PROVE OrdersInv'
    BY <1>5 DEF OT!List, OT!Die, OT!Goes, OT!tables, OrdersTypeOK, OneUser, OneOrder
  <1>6. CASE UNCHANGED OT!vars
    BY <1>6 DEF OT!vars, OT!tables, OrdersTypeOK, OneUser, OneOrder
  <1> QED
    BY <1>1, <1>2, <1>3, <1>4, <1>5, <1>6 DEF OT!Next

LEMMA OrdersHoldTogether == OrdersInv => OT!OrdersAreTransactional
  <1> SUFFICES ASSUME OrdersInv PROVE OT!OrdersAreTransactional
    OBVIOUS
  <1>1. \A S : OT!Cardinality(S) = Cardinality(S)
    BY DEF OT!Cardinality, Cardinality
  <1>2. ASSUME NEW S, \A a, b \in S : a = b PROVE Cardinality(S) <= 1
    <2>1. S = {} \/ \E a : S = {a}
      BY <1>2
    <2> QED
      <3>1. Cardinality(S) = 0 \/ Cardinality(S) = 1
        BY <2>1, FS_EmptySet, FS_Singleton
      <3> QED
        BY <3>1
  <1>3. Cardinality(userIDs) <= 1
    BY <1>2 DEF OrdersInv, OneUser
  <1>4. ASSUME NEW r \in Runs
        PROVE  LET mine == {o \in orders : o.run = r}
               IN /\ result[r] = "order" => mine # {}
                  /\ mine # {} => result[r] # "none"
                  /\ Cardinality(mine) <= 1
    <2> DEFINE mine == {o \in orders : o.run = r}
    <2>1. Cardinality(mine) <= 1
      BY <1>2 DEF OrdersInv, OneOrder
    <2> QED
      BY <2>1 DEF OrdersInv, OneOrder
  <1> QED
    BY <1>1, <1>3, <1>4 DEF OT!OrdersAreTransactional, OrdersInv, OneUser

------------------------------------------------------------------------------
(* Accounts                                                                   *)

Document == [email : Emails, password : Passwords, count : Nat, told : BOOLEAN]
Steps == {"idle", "create", "tokens", "extract", "profile", "tasks", "create task"}

AccountsTypeOK == /\ users \in Seq(Document) /\ tasks \in Seq(Nat)
                  /\ stage \in [Clients -> Steps] /\ who \in [Clients -> Nat]
                  /\ DOMAIN draft = Clients /\ draft = [c \in Clients |-> draft[c]]

(* Those there were at a lookup that told had another e-mail.                 *)
Told(d) == d.told => \A i \in 1..d.count : users[i].email # d.email

RecordsHold == /\ \A j \in 1..Len(users) : users[j].count < j /\ Told(users[j])
               /\ \A k \in DOMAIN tasks : tasks[k] \in AC!IDs
               /\ \A t \in issued : t.id \in AC!IDs

ClientsHold == \A c \in Clients :
    /\ stage[c] \notin {"idle", "create"} => who[c] \in AC!IDs
    /\ stage[c] = "create" => /\ draft[c] \in Document
                              /\ draft[c].count <= Len(users) /\ Told(draft[c])

AccountsInv == AccountsTypeOK /\ RecordsHold /\ ClientsHold

LEMMA AccountsInitInv == AC!Init => AccountsInv
  BY DEF AC!Init, AccountsInv, AccountsTypeOK, RecordsHold, ClientsHold, Steps

(* FindOne comes back empty only if nobody has the e-mail.                    *)
LEMMA NobodyFound ==
  ASSUME AccountsTypeOK, NEW e, AC!ByEmail(e) = {}
  PROVE  \A i \in 1..Len(users) : users[i].email # e
  <1> DEFINE T == {i \in 1..Len(users) : users[i].email = e}
  <1> SUFFICES ASSUME T # {} PROVE FALSE
    OBVIOUS
  <1>1. Len(users) \in Nat /\ T \subseteq Nat
    BY DEF AccountsTypeOK
  <1>2. PICK n \in T : \A m \in T : n <= m
    BY <1>1, LeastOfNaturals
  <1>3. n \in 1..Len(users) /\ users[n].email = e /\ \A j \in 1..(n - 1) : users[j].email # e
    BY <1>1, <1>2
  <1> QED
    BY <1>3 DEF AC!ByEmail, AC!IDs

LEMMA AccountsNextInv == AccountsInv /\ [AC!Next]_(AC!vars) => AccountsInv'
  <1> SUFFICES ASSUME AccountsInv, [AC!Next]_(AC!vars) PROVE AccountsInv'
    OBVIOUS
  <1> USE DEF AccountsInv, AC!store, AC!tokens
  <1>0. Len(users) \in Nat /\ AC!IDs = 1..Len(users)
    BY DEF AccountsTypeOK, AC!IDs
  <1>1. ASSUME NEW c \in Clients, NEW step \in Steps \ {"create"}, NEW id \in Nat,
               AC!Goes(c, step, id), step # "idle" => id \in AC!IDs, UNCHANGED users,
               UNCHANGED draft \/ draft' = [draft EXCEPT ![c] = AC!NoDraft]
        PROVE  ClientsHold' /\ stage' \in [Clients -> Steps] /\ who' \in [Clients -> Nat]
               /\ DOMAIN draft' = Clients /\ draft' = [d \in Clients |-> draft'[d]]
    <2>1. /\ stage' \in [Clients -> Steps] /\ who' \in [Clients -> Nat]
          /\ stage'[c] = step /\ who'[c] = id
          /\ \A d \in Clients : d # c => stage'[d] = stage[d] /\ who'[d] = who[d]
      BY <1>1 DEF AC!Goes, AccountsTypeOK
    <2>2. /\ DOMAIN draft' = Clients /\ draft' = [d \in Clients |-> draft'[d]]
          /\ \A d \in Clients : d # c => draft'[d] = draft[d]
      BY <1>1 DEF AccountsTypeOK
    <2> QED
      BY <1>1, <2>1, <2>2 DEF ClientsHold, Told, AC!IDs
  <1>2. ASSUME NEW c \in Clients, AC!Answers(c), UNCHANGED users
        PROVE  ClientsHold' /\ stage' \in [Clients -> Steps] /\ who' \in [Clients -> Nat]
               /\ DOMAIN draft' = Clients /\ draft' = [d \in Clients |-> draft'[d]]
    BY <1>1, <1>2 DEF AC!Answers, Steps
  <1>3. ASSUME UNCHANGED <<users, tasks, issued>>, ClientsHold',
               stage' \in [Clients -> Steps], who' \in [Clients -> Nat],
               DOMAIN draft' = Clients, draft' = [d \in Clients |-> draft'[d]]
        PROVE  AccountsInv'
    BY <1>3 DEF AccountsTypeOK, RecordsHold, Told, AC!IDs
  <1>4. ASSUME NEW c \in Clients, NEW r \in AC!Credentials, AC!SignupLookup(c, r) PROVE AccountsInv'
    <2>1. CASE AC!Answers(c)
      BY <1>2, <1>3, <1>4, <2>1 DEF AC!SignupLookup
    <2>2. ASSUME NEW failed \in BOOLEAN, failed \/ AC!ByEmail(r.email) = {}, AC!Goes(c, "create", 0),
                 draft' = [draft EXCEPT ![c] =
                   [email |-> r.email, password |-> r.password, count |-> Len(users), told |-> ~failed]]
          PROVE  AccountsInv'
      <3> DEFINE new == [email |-> r.email, password |-> r.password, count |-> Len(users), told |-> ~failed]
      <3>1. UNCHANGED <<users, tasks, issued, expired>>
        BY <1>4 DEF AC!SignupLookup
      <3>2. new \in Document /\ new.count = Len(users) /\ new.email = r.email /\ (new.told => ~failed)
        BY <1>0 DEF Document, AC!Credentials
      <3>3. draft'[c] = new
        BY <2>2 DEF AccountsTypeOK
      <3> HIDE DEF new
      <3>4. Told(new)
        BY <2>2, <3>2, NobodyFound DEF Told
      <3>5. /\ stage' \in [Clients -> Steps] /\ who' \in [Clients -> Nat] /\ stage'[c] = "create"
            /\ \A d \in Clients : d # c => stage'[d] = stage[d] /\ who'[d] = who[d]
        BY <2>2 DEF AC!Goes, AccountsTypeOK, Steps
      <3>6. /\ DOMAIN draft' = Clients /\ draft' = [d \in Clients |-> draft'[d]]
            /\ \A d \in Clients : d # c => draft'[d] = draft[d]
        BY <2>2 DEF AccountsTypeOK
      <3>7. ClientsHold'
        BY <1>0, <3>1, <3>2, <3>3, <3>4, <3>5, <3>6 DEF ClientsHold, Told, AC!IDs
      <3> QED
        BY <1>3, <3>1, <3>5, <3>6, <3>7
    <2> QED
      BY <1>4, <2>1, <2>2 DEF AC!SignupLookup
  <1>5. ASSUME NEW c \in Clients, AC!SignupCreate(c) PROVE AccountsInv'
    <2>1. stage[c] = "create" /\ UNCHANGED <<tasks, issued, expired>> /\ AC!Insert(c)
      BY <1>5 DEF AC!SignupCreate
    <2>2. CASE UNCHANGED users
      <3>1. AC!Answers(c)
        <4>1. \A d : Append(users, d) # users
          BY DEF AccountsTypeOK
        <4> QED
          BY <2>1, <2>2, <4>1 DEF AC!Insert
      <3> QED
        BY <1>2, <1>3, <2>1, <2>2, <3>1
    <2>3. CASE users' = Append(users, draft[c])
      <3>1. PICK new : new = draft[c]
        OBVIOUS
      <3>2. /\ new \in Document /\ new.count \in Nat /\ new.count <= Len(users) /\ Told(new)
        BY <2>1, <3>1 DEF ClientsHold, Document
      <3>3. /\ users' \in Seq(Document) /\ Len(users') = Len(users) + 1
            /\ users'[Len(users) + 1] = new
            /\ \A i \in 1..Len(users) : users'[i] = users[i]
        BY <2>3, <3>2, <3>1 DEF AccountsTypeOK
      <3>4. AC!IDs' = 1..(Len(users) + 1) /\ \A i \in AC!IDs : i \in AC!IDs'
        BY <1>0, <3>3 DEF AC!IDs
      <3>5. \A j \in 1..Len(users) : users[j] \in Document
        BY DEF AccountsTypeOK
      <3>6. \A j \in 1..(Len(users) + 1) : users'[j].count < j /\ Told(users[j])'
        <4> SUFFICES ASSUME NEW j \in 1..(Len(users) + 1) PROVE users'[j].count < j /\ Told(users[j])'
          OBVIOUS
        <4>1. CASE j = Len(users) + 1
          <5>1. \A i \in 1..new.count : i \in 1..Len(users)
            BY <1>0, <3>2
          <5>2. Told(new)'
            BY <3>2, <3>3, <5>1 DEF Told
          <5>3. users'[j] = new /\ new.count < j
            BY <1>0, <3>2, <3>3, <4>1
          <5>4. Told(users[j])'
            BY <5>2, <5>3 DEF Told
          <5> QED
            BY <5>3, <5>4
        <4>2. CASE j # Len(users) + 1
          <5>1. j \in 1..Len(users) /\ users'[j] = users[j]
            BY <1>0, <3>3, <4>2
          <5>2. users[j].count \in Nat /\ users[j].count < j /\ Told(users[j])
            BY <3>5, <5>1 DEF Document, RecordsHold
          <5>3. \A i \in 1..users[j].count : i \in 1..Len(users)
            BY <1>0, <5>1, <5>2
          <5> QED
            BY <3>3, <5>1, <5>2, <5>3 DEF Told
        <4> QED
          BY <4>1, <4>2
      <3>7. RecordsHold'
        BY <2>1, <3>3, <3>4, <3>6 DEF RecordsHold
      <3>8. /\ stage' \in [Clients -> Steps] /\ who' \in [Clients -> Nat]
            /\ stage'[c] \in {"idle", "tokens"} /\ (stage'[c] = "tokens" => who'[c] = Len(users) + 1)
            /\ \A d \in Clients : d # c => stage'[d] = stage[d] /\ who'[d] = who[d]
        <4>1. \/ AC!Goes(c, "idle", 0)
              \/ AC!Goes(c, "tokens", Len(users) + 1)
          BY <2>1 DEF AC!Insert, AC!Answers
        <4>2. ASSUME NEW step \in Steps, NEW id \in Nat, AC!Goes(c, step, id)
              PROVE  /\ stage' \in [Clients -> Steps] /\ who' \in [Clients -> Nat]
                     /\ stage'[c] = step /\ who'[c] = id
                     /\ \A d \in Clients : d # c => stage'[d] = stage[d] /\ who'[d] = who[d]
          BY <4>2 DEF AC!Goes, AccountsTypeOK
        <4>3. CASE AC!Goes(c, "idle", 0)
          BY <4>2, <4>3 DEF Steps
        <4>4. CASE AC!Goes(c, "tokens", Len(users) + 1)
          <5>1. Len(users) + 1 \in Nat /\ "tokens" \in Steps
            BY <1>0 DEF Steps
          <5> QED
            BY <4>2, <4>4, <5>1
        <4> QED
          BY <4>1, <4>3, <4>4
      <3>9. /\ DOMAIN draft' = Clients /\ draft' = [d \in Clients |-> draft'[d]]
            /\ \A d \in Clients : d # c => draft'[d] = draft[d]
        BY <2>1 DEF AC!Insert, AC!Answers, AccountsTypeOK
      <3>10. ClientsHold'
        <4> SUFFICES ASSUME NEW d \in Clients
                     PROVE  /\ stage'[d] \notin {"idle", "create"} => who'[d] \in AC!IDs'
                            /\ stage'[d] = "create" =>
                                  /\ draft'[d] \in Document
                                  /\ draft'[d].count <= Len(users') /\ Told(draft[d])'
          BY DEF ClientsHold
        <4>1. CASE d = c
          BY <1>0, <3>4, <3>8, <4>1
        <4>2. CASE d # c
          <5>1. stage'[d] = stage[d] /\ who'[d] = who[d] /\ draft'[d] = draft[d]
            BY <3>8, <3>9, <4>2
          <5>2. CASE stage[d] = "create"
            <6>1. /\ draft[d] \in Document /\ draft[d].count \in Nat
                  /\ draft[d].count <= Len(users) /\ Told(draft[d])
              BY <5>2 DEF ClientsHold, Document
            <6>2. \A i \in 1..draft[d].count : i \in 1..Len(users)
              BY <1>0, <6>1
            <6>3. Told(draft[d])'
              BY <3>3, <5>1, <6>1, <6>2 DEF Told
            <6> QED
              BY <1>0, <3>3, <5>1, <5>2, <6>1, <6>3
          <5>3. CASE stage[d] # "create"
            BY <3>4, <5>1, <5>3 DEF ClientsHold
          <5> QED
            BY <5>2, <5>3
        <4> QED
          BY <4>1, <4>2
      <3> QED
        BY <2>1, <3>3, <3>7, <3>8, <3>9, <3>10 DEF AccountsTypeOK
    <2> QED
      BY <2>1, <2>2, <2>3 DEF AC!Insert
  <1>6. ASSUME NEW c \in Clients, NEW r \in AC!Credentials, AC!Login(c, r) PROVE AccountsInv'
    <2>1. CASE AC!Answers(c)
      BY <1>2, <1>3, <1>6, <2>1 DEF AC!Login
    <2>2. ASSUME NEW i \in AC!ByEmail(r.email), AC!Goes(c, "tokens", i), UNCHANGED draft PROVE AccountsInv'
      <3>1. i \in AC!IDs /\ i \in Nat
        BY <1>0 DEF AC!ByEmail
      <3> QED
        BY <1>1, <1>3, <1>6, <2>2, <3>1 DEF AC!Login, Steps
    <2> QED
      BY <1>6, <2>1, <2>2 DEF AC!Login
  <1>7. ASSUME NEW c \in Clients, NEW t \in issued, AC!Refresh(c, t) \/ AC!Authorize(c, t) PROVE AccountsInv'
    <2>1. CASE AC!Answers(c)
      BY <1>2, <1>3, <1>7, <2>1 DEF AC!Refresh, AC!Authorize
    <2>2. ASSUME NEW step \in {"tokens", "extract"}, AC!Goes(c, step, t.id), UNCHANGED draft PROVE AccountsInv'
      <3>1. t.id \in AC!IDs /\ t.id \in Nat
        BY <1>0 DEF RecordsHold
      <3>2. UNCHANGED <<users, tasks, issued>>
        BY <1>7 DEF AC!Refresh, AC!Authorize
      <3> QED
        BY <1>1, <1>3, <2>2, <3>1, <3>2 DEF Steps
    <2> QED
      BY <1>7, <2>1, <2>2 DEF AC!Refresh, AC!Authorize
  <1>8. ASSUME NEW c \in Clients, AC!IssueTokens(c) PROVE AccountsInv'
    <2>1. stage[c] = "tokens" /\ AC!Answers(c) /\ UNCHANGED <<users, tasks>>
      BY <1>8 DEF AC!IssueTokens
    <2>2. who[c] \in AC!IDs
      BY <2>1 DEF ClientsHold
    <2>3. \A t \in issued' : t.id \in AC!IDs
      BY <1>8, <2>2 DEF AC!IssueTokens, RecordsHold
    <2>4. RecordsHold'
      BY <2>1, <2>3 DEF RecordsHold, Told, AC!IDs
    <2> QED
      BY <1>2, <2>1, <2>4 DEF AccountsTypeOK
  <1>9. ASSUME NEW c \in Clients, AC!ExtractID(c) PROVE AccountsInv'
    <2>1. stage[c] = "extract" /\ UNCHANGED <<users, tasks, issued>>
      BY <1>9 DEF AC!ExtractID
    <2>2. who[c] \in AC!IDs /\ who[c] \in Nat
      BY <1>0, <2>1 DEF ClientsHold
    <2>3. CASE AC!Answers(c)
      BY <1>2, <1>3, <2>1, <2>3
    <2>4. ASSUME NEW step \in {"profile", "tasks", "create task"}, AC!Goes(c, step, who[c]), UNCHANGED draft
          PROVE  AccountsInv'
      BY <1>1, <1>3, <2>1, <2>2, <2>4 DEF Steps
    <2> QED
      BY <1>9, <2>3, <2>4 DEF AC!ExtractID
  <1>10. ASSUME NEW c \in Clients, AC!Profile(c) \/ AC!FetchTasks(c) PROVE AccountsInv'
    BY <1>2, <1>3, <1>10 DEF AC!Profile, AC!FetchTasks
  <1>11. ASSUME NEW c \in Clients, AC!CreateTask(c) PROVE AccountsInv'
    <2>1. /\ stage[c] = "create task" /\ AC!Answers(c) /\ UNCHANGED <<users, issued>>
          /\ tasks' \in {tasks, Append(tasks, who[c])}
      BY <1>11 DEF AC!CreateTask
    <2>2. who[c] \in AC!IDs /\ who[c] \in Nat
      <3>1. stage[c] \notin {"idle", "create"}
        BY <2>1
      <3> QED
        BY <1>0, <3>1 DEF ClientsHold
    <2>3. tasks' \in Seq(Nat) /\ \A k \in DOMAIN tasks' : tasks'[k] \in AC!IDs
      <3>1. CASE tasks' = tasks
        BY <3>1 DEF AccountsTypeOK, RecordsHold
      <3>2. CASE tasks' = Append(tasks, who[c])
        <4>1. /\ tasks' \in Seq(Nat) /\ DOMAIN tasks' = 1..(Len(tasks) + 1)
              /\ DOMAIN tasks = 1..Len(tasks) /\ Len(tasks) \in Nat
              /\ tasks'[Len(tasks) + 1] = who[c]
              /\ \A k \in 1..Len(tasks) : tasks'[k] = tasks[k]
          BY <2>2, <3>2 DEF AccountsTypeOK
        <4>2. \A k \in 1..(Len(tasks) + 1) : k = Len(tasks) + 1 \/ k \in 1..Len(tasks)
          BY <4>1
        <4> QED
          BY <2>2, <4>1, <4>2 DEF RecordsHold
      <3> QED
        BY <2>1, <3>1, <3>2
    <2>4. RecordsHold'
      BY <2>1, <2>3 DEF RecordsHold, Told, AC!IDs
    <2> QED
      BY <1>2, <2>1, <2>3, <2>4 DEF AccountsTypeOK
  <1>12. CASE (\E t \in issued : AC!Expire(t)) \/ UNCHANGED AC!vars
    <2>1. UNCHANGED <<users, tasks, issued, stage, who, draft>>
      BY <1>12 DEF AC!Expire, AC!vars
    <2> QED
      BY <2>1 DEF AccountsTypeOK, RecordsHold, ClientsHold, Told, AC!IDs
  <1> QED
    BY <1>4, <1>5, <1>6, <1>7, <1>8, <1>9, <1>10, <1>11, <1>12 DEF AC!Next

(* Tasks and tokens belong to users on record, and the order a run was told   *)
(* of is there, one for the one user, whatever fails, dies or overlaps.       *)
THEOREM RecordsHangTogether == AC!Spec /\ OT!Spec => []AccountsHangTogether
  <1>1. AccountsInv => AC!AccountsHangTogether
    <2> SUFFICES ASSUME AccountsInv PROVE AC!AccountsHangTogether
      OBVIOUS
    <2> USE DEF AccountsInv
    <2>1. DOMAIN tasks = UNION {AC!TasksOf(id) : id \in AC!IDs}
      <3>1. \A k \in DOMAIN tasks : tasks[k] \in AC!IDs /\ k \in AC!TasksOf(tasks[k])
        BY DEF RecordsHold, AC!TasksOf
      <3>2. \A id \in AC!IDs : AC!TasksOf(id) \subseteq DOMAIN tasks
        BY DEF AC!TasksOf
      <3> QED
        BY <3>1, <3>2
    <2>2. \A c \in Clients : stage[c] \notin {"idle", "create"} => AC!ByID(who[c]) # {}
      BY DEF ClientsHold, AC!ByID
    <2>3. ASSUME NEW i \in AC!IDs, NEW j \in AC!IDs, i < j, users[i].email = users[j].email
          PROVE  users[j].count < i \/ ~users[j].told
      <3>1. i \in Nat /\ j \in 1..Len(users) /\ i \in 1..Len(users)
        BY DEF AC!IDs, AccountsTypeOK
      <3>2. users[j] \in Document
        BY <3>1 DEF AccountsTypeOK
      <3>3. users[j].count \in Nat /\ Told(users[j])
        BY <3>1, <3>2 DEF Document, RecordsHold
      <3>4. i \in 1..users[j].count \/ users[j].count < i
        BY <3>1, <3>3
      <3> QED
        BY <2>3, <3>3, <3>4 DEF Told
    <2> QED
      BY <2>1, <2>2, <2>3 DEF AC!AccountsHangTogether, RecordsHold
  <1>2. AccountsInv /\ OrdersInv => AccountsHangTogether
    BY <1>1, OrdersHoldTogether DEF AccountsHangTogether
  <1> QED
    BY <1>2, AccountsInitInv, AccountsNextInv, OrdersInitInv, OrdersNextInv, PTL DEF AC!Spec, OT!Spec


------------------------------------------------------------------------------
(* EventStore                                                                 *)

EventTypes == {"AccountCreated", "MoneyDeposited", "MoneyWithdrawn",
               "TransferSent", "TransferReceived"}
LogEvents == [type : EventTypes, account : Accounts, amount : Nat, version : Nat]
AccountStates == [balance : Int, version : Nat]

OneStep(s, e, a) == IF e.account = a THEN ES!Applied(s, e) ELSE s

LEMMA AppliedState ==
  ASSUME NEW s \in AccountStates, NEW e \in LogEvents
  PROVE  /\ ES!Applied(s, e) \in AccountStates
         /\ ES!Applied(s, e).version = e.version
         /\ e.type = "AccountCreated" => ES!Applied(s, e).balance = 0
         /\ e.type \in {"MoneyDeposited", "TransferReceived"} =>
               ES!Applied(s, e).balance = s.balance + e.amount
         /\ e.type \in {"MoneyWithdrawn", "TransferSent"} =>
               ES!Applied(s, e).balance = s.balance - e.amount
  BY DEF AccountStates, LogEvents, EventTypes, ES!Applied

LEMMA OneStepState ==
  ASSUME NEW s \in AccountStates, NEW e \in LogEvents, NEW a
  PROVE  OneStep(s, e, a) \in AccountStates
  BY AppliedState DEF OneStep

(* The replay is what its recursion says.                                     *)
LEMMA ReplayedUnfolds ==
  ASSUME NEW log \in Seq(LogEvents), NEW a
  PROVE  /\ ES!Replayed(log, a)[0] = ES!NoAccount
         /\ \A k \in 1..Len(log) :
               ES!Replayed(log, a)[k] = OneStep(ES!Replayed(log, a)[k - 1], log[k], a)
         /\ \A k \in 0..Len(log) : ES!Replayed(log, a)[k] \in AccountStates
  <1> DEFINE n == Len(log)
             Body(d) == [k \in 0..Len(log) |->
                            IF k = 0 THEN ES!NoAccount
                            ELSE IF log[k].account = a THEN ES!Applied(d[k - 1], log[k])
                            ELSE d[k - 1]]
             table == [p \in (1..n) \X AccountStates |-> OneStep(p[2], log[p[1]], a)]
             r == ES!Replayed(log, a)
  <1>1. n \in Nat /\ \A k \in 1..n : log[k] \in LogEvents
    OBVIOUS
  <1>2. ES!NoAccount \in AccountStates
    BY DEF ES!NoAccount, AccountStates
  <1>3. \A k \in 1..n, s \in AccountStates : table[<<k, s>>] = OneStep(s, log[k], a)
    OBVIOUS
  <1>4. table \in [(1..n) \X AccountStates -> AccountStates]
    BY <1>1, OneStepState
  <1> HIDE DEF table
  <1>5. PICK f \in [0..n -> AccountStates] : Iterates(f, n, ES!NoAccount, table)
    BY <1>1, <1>2, <1>4, RecursionExists
  <1>6. \A k \in 1..n : f[k] = OneStep(f[k - 1], log[k], a)
    <2> SUFFICES ASSUME NEW k \in 1..n PROVE f[k] = OneStep(f[k - 1], log[k], a)
      OBVIOUS
    <2>1. f[k - 1] \in AccountStates
      BY <1>1, <1>5
    <2> QED
      BY <1>3, <1>5, <2>1 DEF Iterates
  <1>7. f = Body(f)
    BY <1>1, <1>5, <1>6 DEF Iterates, OneStep
  <1>8. r = CHOOSE d : d = Body(d)
    BY DEF ES!Replayed
  <1>9. r = Body(r)
    BY <1>7, <1>8
  <1> HIDE DEF r
  <1>10. /\ r[0] = ES!NoAccount
         /\ \A k \in 1..n : r[k] = OneStep(r[k - 1], log[k], a)
    <2>1. 0 \in 0..n /\ \A k \in 1..n : k \in 0..n /\ k # 0
      BY <1>1
    <2> QED
      BY <1>9, <2>1 DEF OneStep
  <1>11. StepsWithin(r, n, ES!NoAccount, table, AccountStates)
    BY <1>3, <1>10 DEF StepsWithin
  <1> HIDE DEF n
  <1>12. StaysWithin(r, n, AccountStates)
    BY <1>1, <1>2, <1>4, <1>11, RecursionStays
  <1> QED
    BY <1>10, <1>12 DEF r, n, StaysWithin

(* One more event leaves the past as it was.                                  *)
LEMMA ReplayedAppend ==
  ASSUME NEW log \in Seq(LogEvents), NEW e \in LogEvents, NEW a
  PROVE  /\ \A k \in 0..Len(log) :
               ES!Replayed(Append(log, e), a)[k] = ES!Replayed(log, a)[k]
         /\ ES!Reconstruct(Append(log, e), a) = OneStep(ES!Reconstruct(log, a), e, a)
         /\ ES!Reconstruct(log, a) \in AccountStates
  <1> DEFINE n == Len(log)
             more == Append(log, e)
             r == ES!Replayed(log, a)
             s == ES!Replayed(more, a)
  <1>1. /\ n \in Nat /\ more \in Seq(LogEvents) /\ Len(more) = n + 1
        /\ more[n + 1] = e /\ \A k \in 1..n : more[k] = log[k]
    OBVIOUS
  <1> HIDE DEF more
  <1>2. /\ r[0] = ES!NoAccount
        /\ \A k \in 1..n : r[k] = OneStep(r[k - 1], log[k], a)
        /\ r[n] \in AccountStates
    BY <1>1, ReplayedUnfolds
  <1>3. /\ s[0] = ES!NoAccount
        /\ \A k \in 1..n + 1 : s[k] = OneStep(s[k - 1], more[k], a)
    BY <1>1, ReplayedUnfolds
  <1> HIDE DEF r, s, n
  <1>4. StepAlike(s, r, n)
    BY <1>1, <1>2, <1>3 DEF StepAlike
  <1>5. \A k \in 0..n : s[k] = r[k]
    BY <1>1, <1>4, RecursionsAgree DEF Alike
  <1>6. s[n + 1] = OneStep(r[n], e, a)
    BY <1>1, <1>3, <1>5
  <1> QED
    BY <1>1, <1>2, <1>5, <1>6 DEF r, s, n, more, ES!Reconstruct

(* Event k of a log is the next one of its account behind event j, and its    *)
(* version is the one that this calls for.                                    *)
NextOf(log, k, j) ==
    /\ j < k /\ log[j].account = log[k].account
    /\ \A i \in j + 1..k - 1 : log[i].account # log[k].account

Numbered(log, k) ==
    \/ /\ log[k].version = 1
       /\ \/ log[k].type = "AccountCreated"
          \/ \A j \in 1..k - 1 : log[j].account # log[k].account
    \/ /\ log[k].type # "AccountCreated"
       /\ \E j \in 1..k - 1 : NextOf(log, k, j) /\ log[k].version = log[j].version + 1

(* The version a replay ends with is that of the account's last event.        *)
LatestVersion(log, a) ==
    \/ /\ ES!Reconstruct(log, a).version = 0
       /\ \A j \in 1..Len(log) : log[j].account # a
    \/ \E j \in 1..Len(log) :
          /\ log[j].account = a /\ \A i \in j + 1..Len(log) : log[i].account # a
          /\ ES!Reconstruct(log, a).version = log[j].version

NeverInTheRed(log, a) == \A k \in 0..Len(log) : ES!Replayed(log, a)[k].balance >= 0

LogInv(log) == /\ log \in Seq(LogEvents)
               /\ \A a \in Accounts : NeverInTheRed(log, a) /\ LatestVersion(log, a)
               /\ \A k \in 1..Len(log) : Numbered(log, k)

(* What the command handlers see to before they append.                       *)
Valid(log, e) ==
    /\ e \in LogEvents
    /\ e.version = IF e.type = "AccountCreated" THEN 1
                   ELSE ES!Reconstruct(log, e.account).version + 1
    /\ e.type \in {"MoneyWithdrawn", "TransferSent"} =>
          ES!Reconstruct(log, e.account).balance >= e.amount

LEMMA AppendKeeps ==
  ASSUME NEW log, LogInv(log), NEW e, Valid(log, e)
  PROVE  LogInv(Append(log, e))
  <1> DEFINE n == Len(log)
             more == Append(log, e)
  <1>1. log \in Seq(LogEvents) /\ e \in LogEvents
    BY DEF LogInv, Valid
  <1>2. /\ n \in Nat /\ more \in Seq(LogEvents) /\ Len(more) = n + 1
        /\ more[n + 1] = e /\ \A k \in 1..n : more[k] = log[k]
    BY <1>1
  <1>3. /\ 0 \in 0..n /\ n \in 0..n /\ n + 1 \in 1..n + 1
        /\ \A k \in 1..n : k \in 1..n + 1
        /\ \A k \in 1..n + 1 : k \in 1..n \/ k = n + 1
        /\ \A k \in 0..n + 1 : k \in 0..n \/ k = n + 1
    BY <1>2
  <1>4. ASSUME NEW a
        PROVE  /\ \A k \in 0..n : ES!Replayed(more, a)[k] = ES!Replayed(log, a)[k]
               /\ ES!Reconstruct(more, a) = OneStep(ES!Reconstruct(log, a), e, a)
               /\ ES!Reconstruct(log, a) \in AccountStates
    BY <1>1, ReplayedAppend
  <1>5. ASSUME NEW a
        PROVE  /\ ES!Reconstruct(log, a) = ES!Replayed(log, a)[n]
               /\ ES!Reconstruct(more, a) = ES!Replayed(more, a)[n + 1]
    BY <1>2 DEF ES!Reconstruct
  <1> HIDE DEF more, n
  <1>6. ASSUME NEW a \in Accounts PROVE NeverInTheRed(more, a)
    <2>1. \A k \in 0..n : ES!Replayed(log, a)[k].balance >= 0
      BY DEF LogInv, NeverInTheRed, n
    <2>2. ES!Reconstruct(log, a).balance >= 0
      BY <1>3, <1>5, <2>1
    <2>3. ES!Reconstruct(more, a).balance >= 0
      <3>1. CASE e.account # a
        BY <1>4, <2>2, <3>1 DEF OneStep
      <3>2. CASE e.account = a
        <4> DEFINE s == ES!Reconstruct(log, a)
                   t == ES!Reconstruct(more, a)
        <4>1. t = ES!Applied(s, e) /\ s \in AccountStates
          BY <1>4, <3>2 DEF OneStep
        <4>2. s.balance >= 0 /\ s.balance \in Int /\ e.amount \in Nat /\ e.type \in EventTypes
          BY <1>1, <2>2, <4>1 DEF AccountStates, LogEvents
        <4>3. e.type \in {"MoneyWithdrawn", "TransferSent"} => s.balance >= e.amount
          BY <3>2 DEF Valid
        <4> HIDE DEF s, t
        <4>4. CASE e.type = "AccountCreated"
          BY <1>1, <4>1, <4>4, AppliedState DEF t
        <4>5. CASE e.type \in {"MoneyDeposited", "TransferReceived"}
          <5>1. t.balance = s.balance + e.amount
            BY <1>1, <4>1, <4>5, AppliedState
          <5> QED
            BY <4>2, <5>1 DEF t
        <4>6. CASE e.type \in {"MoneyWithdrawn", "TransferSent"}
          <5>1. t.balance = s.balance - e.amount
            BY <1>1, <4>1, <4>6, AppliedState
          <5> QED
            BY <4>2, <4>3, <4>6, <5>1 DEF t
        <4> QED
          BY <4>2, <4>4, <4>5, <4>6 DEF EventTypes
      <3> QED
        BY <3>1, <3>2
    <2> QED
      BY <1>2, <1>3, <1>4, <1>5, <2>1, <2>3 DEF NeverInTheRed
  <1>7. ASSUME NEW a \in Accounts PROVE LatestVersion(more, a)
    <2>1. LatestVersion(log, a)
      BY DEF LogInv
    <2>2. CASE e.account # a
      <3>1. ES!Reconstruct(more, a) = ES!Reconstruct(log, a)
        BY <1>4, <2>2 DEF OneStep
      <3>2. CASE \A j \in 1..n : log[j].account # a
        <4>1. ES!Reconstruct(log, a).version = 0
          BY <2>1, <3>2 DEF LatestVersion, n
        <4> QED
          BY <1>2, <1>3, <2>2, <3>1, <3>2, <4>1 DEF LatestVersion
      <3>3. CASE \E j \in 1..n : log[j].account = a
        <4>1. PICK j \in 1..n :
                 /\ log[j].account = a /\ \A i \in j + 1..n : log[i].account # a
                 /\ ES!Reconstruct(log, a).version = log[j].version
          BY <2>1, <3>3 DEF LatestVersion, n
        <4>2. \A i \in j + 1..n + 1 : i = n + 1 \/ (i \in j + 1..n /\ i \in 1..n)
          BY <1>2
        <4>3. \A i \in j + 1..n + 1 : more[i].account # a
          BY <1>2, <2>2, <4>1, <4>2
        <4> QED
          BY <1>2, <1>3, <3>1, <4>1, <4>3 DEF LatestVersion
      <3> QED
        BY <3>2, <3>3
    <2>3. CASE e.account = a
      <3>1. ES!Reconstruct(more, a).version = e.version
        BY <1>1, <1>4, <2>3, AppliedState DEF OneStep
      <3>2. \A i \in (n + 1) + 1..n + 1 : FALSE
        BY <1>2
      <3> QED
        BY <1>2, <1>3, <2>3, <3>1, <3>2 DEF LatestVersion
    <2> QED
      BY <2>2, <2>3
  <1>8. ASSUME NEW k \in 1..n + 1 PROVE Numbered(more, k)
    <2>1. CASE k \in 1..n
      <3>1. Numbered(log, k)
        BY <2>1 DEF LogInv, n
      <3>2. more[k] = log[k] /\ \A j \in 1..k - 1 : j \in 1..n /\ more[j] = log[j]
        BY <1>2, <2>1
      <3>3. \A j \in 1..k - 1 : \A i \in j + 1..k - 1 : more[i] = log[i]
        BY <3>2
      <3> QED
        BY <3>1, <3>2, <3>3 DEF Numbered, NextOf
    <2>2. CASE k = n + 1
      <3> DEFINE a == e.account
      <3>1. a \in Accounts /\ more[k] = e /\ n + 1 - 1 = n
        BY <1>1, <1>2, <2>2 DEF LogEvents
      <3>2. CASE e.type = "AccountCreated"
        BY <3>1, <3>2 DEF Numbered, Valid
      <3>3. CASE e.type # "AccountCreated"
        <4>1. LatestVersion(log, a) /\ e.version = ES!Reconstruct(log, a).version + 1
          BY <3>1, <3>3 DEF LogInv, Valid
        <4>2. CASE \A j \in 1..n : log[j].account # a
          <5>1. ES!Reconstruct(log, a).version = 0
            BY <4>1, <4>2 DEF LatestVersion, n
          <5>2. e.version = 1
            BY <4>1, <5>1
          <5> QED
            BY <1>2, <2>2, <3>1, <4>2, <5>2 DEF Numbered
        <4>3. CASE \E j \in 1..n : log[j].account = a
          <5>1. PICK j \in 1..n :
                   /\ log[j].account = a /\ \A i \in j + 1..n : log[i].account # a
                   /\ ES!Reconstruct(log, a).version = log[j].version
            BY <4>1, <4>3 DEF LatestVersion, n
          <5>2. j < n + 1 /\ \A i \in j + 1..n : i \in 1..n
            BY <1>2
          <5>3. NextOf(more, k, j) /\ e.version = more[j].version + 1
            BY <1>2, <2>2, <3>1, <4>1, <5>1, <5>2 DEF NextOf
          <5>4. j \in 1..k - 1
            BY <1>2, <2>2
          <5> QED
            BY <3>1, <3>3, <5>3, <5>4 DEF Numbered
        <4> QED
          BY <4>2, <4>3
      <3> QED
        BY <3>2, <3>3
    <2> QED
      BY <1>3, <2>1, <2>2
  <1> QED
    BY <1>2, <1>6, <1>7, <1>8 DEF LogInv, more

LEMMA EventValid ==
  ASSUME NEW log, LogInv(log), NEW a \in Accounts, NEW m \in Nat, NEW type \in EventTypes,
         type \in {"MoneyWithdrawn", "TransferSent"} => ES!Reconstruct(log, a).balance >= m
  PROVE  Valid(log, ES!Event(log, type, a, m))
  <1> DEFINE e == ES!Event(log, type, a, m)
  <1>1. e = [type |-> type, account |-> a, amount |-> m,
             version |-> IF type = "AccountCreated" THEN 1
                         ELSE ES!Reconstruct(log, a).version + 1]
    BY DEF ES!Event
  <1>2. log \in Seq(LogEvents)
    BY DEF LogInv
  <1>3. ES!Reconstruct(log, a) \in AccountStates
    <2>1. Len(log) \in Nat /\ Len(log) \in 0..Len(log)
      BY <1>2
    <2>2. ES!Replayed(log, a)[Len(log)] \in AccountStates
      BY <1>2, <2>1, ReplayedUnfolds
    <2> QED
      BY <2>2 DEF ES!Reconstruct
  <1>4. ES!Reconstruct(log, a).version + 1 \in Nat
    BY <1>3 DEF AccountStates
  <1> HIDE DEF e
  <1>5. e \in LogEvents
    BY <1>1, <1>4 DEF LogEvents
  <1> QED
    BY <1>1, <1>5 DEF Valid, e

(* The cash that came and went with each prefix of a log.                     *)
CashUpTo(log) == LET upTo[k \in 0..Len(log)] ==
                         IF k = 0 THEN 0 ELSE upTo[k - 1] + ES!Moved(log[k])
                 IN upTo

LEMMA MovedInt == ASSUME NEW e \in LogEvents PROVE ES!Moved(e) \in Int
  BY DEF LogEvents, EventTypes, ES!Moved

LEMMA CashUnfolds ==
  ASSUME NEW log \in Seq(LogEvents)
  PROVE  /\ CashUpTo(log)[0] = 0
         /\ \A k \in 1..Len(log) :
               CashUpTo(log)[k] = CashUpTo(log)[k - 1] + ES!Moved(log[k])
         /\ \A k \in 0..Len(log) : CashUpTo(log)[k] \in Int
  <1> DEFINE n == Len(log)
             Body(d) == [k \in 0..Len(log) |->
                            IF k = 0 THEN 0 ELSE d[k - 1] + ES!Moved(log[k])]
             s == [k \in 1..n |-> ES!Moved(log[k])]
             c == CashUpTo(log)
  <1>1. n \in Nat /\ s \in [1..n -> Int] /\ \A k \in 1..n : s[k] = ES!Moved(log[k])
    BY MovedInt
  <1>2. 0 \in 0..n /\ \A k \in 1..n : k \in 0..n /\ k # 0
    BY <1>1
  <1> HIDE DEF s
  <1>3. PICK f \in [0..n -> Int] : SumsUp(f, n, s)
    BY <1>1, SumsExist
  <1>4. f = Body(f)
    BY <1>1, <1>3 DEF SumsUp
  <1>5. c = CHOOSE d : d = Body(d)
    BY DEF CashUpTo
  <1>6. c = Body(c)
    BY <1>4, <1>5
  <1> HIDE DEF c
  <1>7. c[0] = 0 /\ \A k \in 1..n : c[k] = c[k - 1] + ES!Moved(log[k])
    BY <1>2, <1>6
  <1>8. SumsUp(c, n, s)
    BY <1>1, <1>7 DEF SumsUp
  <1> HIDE DEF n
  <1>9. StaysWithin(c, n, Int)
    BY <1>1, <1>8, SumsExist
  <1> QED
    BY <1>7, <1>9 DEF c, n, StaysWithin

LEMMA CashAppend ==
  ASSUME NEW log \in Seq(LogEvents), NEW e \in LogEvents
  PROVE  /\ CashUpTo(Append(log, e))[Len(Append(log, e))]
               = CashUpTo(log)[Len(log)] + ES!Moved(e)
         /\ CashUpTo(log)[Len(log)] \in Int
  <1> DEFINE n == Len(log)
             more == Append(log, e)
             r == CashUpTo(log)
             s == CashUpTo(more)
  <1>1. /\ n \in Nat /\ more \in Seq(LogEvents) /\ Len(more) = n + 1
        /\ more[n + 1] = e /\ \A k \in 1..n : more[k] = log[k]
    OBVIOUS
  <1> HIDE DEF more
  <1>2. r[0] = 0 /\ (\A k \in 1..n : r[k] = r[k - 1] + ES!Moved(log[k])) /\ r[n] \in Int
    BY <1>1, CashUnfolds
  <1>3. s[0] = 0 /\ \A k \in 1..n + 1 : s[k] = s[k - 1] + ES!Moved(more[k])
    BY <1>1, CashUnfolds
  <1> HIDE DEF r, s, n
  <1>4. StepAlike(s, r, n)
    BY <1>1, <1>2, <1>3 DEF StepAlike
  <1>5. s[n] = r[n]
    <2>1. Alike(s, r, n) /\ n \in 0..n
      BY <1>1, <1>4, RecursionsAgree
    <2> QED
      BY <2>1 DEF Alike
  <1>6. s[n + 1] = s[n] + ES!Moved(e)
    <2>1. n + 1 \in 1..n + 1 /\ n + 1 - 1 = n
      BY <1>1
    <2> QED
      BY <1>1, <1>3, <2>1
  <1> QED
    BY <1>1, <1>2, <1>5, <1>6 DEF r, s, n, more

(* What one event does to the book.                                           *)
Balances(log) == [a \in Accounts |-> ES!Reconstruct(log, a).balance]
CashOf(log) == CashUpTo(log)[Len(log)]

LEMMA BookOfLog ==
  /\ ES!balances = Balances(events) /\ ES!balances' = Balances(events')
  /\ ES!cash = CashOf(events) /\ ES!cash' = CashOf(events')
  BY DEF ES!balances, Balances, ES!cash, CashOf, CashUpTo

LEMMA BookAppend ==
  ASSUME NEW log, LogInv(log), NEW e, Valid(log, e)
  PROVE  /\ Balances(log) \in [Accounts -> Int] /\ e.account \in Accounts
         /\ e.type = "AccountCreated" =>
               Balances(Append(log, e)) = [Balances(log) EXCEPT ![e.account] = 0]
         /\ e.type \in {"MoneyDeposited", "TransferReceived"} =>
               Balances(Append(log, e)) = [Balances(log) EXCEPT ![e.account] = @ + e.amount]
         /\ e.type \in {"MoneyWithdrawn", "TransferSent"} =>
               Balances(Append(log, e)) = [Balances(log) EXCEPT ![e.account] = @ - e.amount]
         /\ CashOf(Append(log, e)) = CashOf(log) + ES!Moved(e) /\ CashOf(log) \in Int
  <1> DEFINE more == Append(log, e)
  <1>1. log \in Seq(LogEvents) /\ e \in LogEvents
    BY DEF LogInv, Valid
  <1>2. ASSUME NEW a \in Accounts
        PROVE  /\ ES!Reconstruct(log, a) \in AccountStates
               /\ ES!Reconstruct(log, a).balance \in Int
               /\ ES!Reconstruct(more, a) = OneStep(ES!Reconstruct(log, a), e, a)
    BY <1>1, ReplayedAppend DEF AccountStates
  <1>3. CashOf(more) = CashOf(log) + ES!Moved(e) /\ CashOf(log) \in Int
    BY <1>1, CashAppend DEF CashOf
  <1> HIDE DEF more
  <1>4. Balances(log) \in [Accounts -> Int] /\ e.account \in Accounts
    BY <1>1, <1>2 DEF Balances, LogEvents
  <1>5. \A a \in Accounts : a # e.account => Balances(more)[a] = Balances(log)[a]
    BY <1>2 DEF Balances, OneStep
  <1>6. /\ Balances(more)[e.account]
              = ES!Applied(ES!Reconstruct(log, e.account), e).balance
        /\ Balances(log)[e.account] = ES!Reconstruct(log, e.account).balance
        /\ ES!Reconstruct(log, e.account) \in AccountStates
    BY <1>2, <1>4 DEF Balances, OneStep
  <1>7. /\ e.type = "AccountCreated" => Balances(more)[e.account] = 0
        /\ e.type \in {"MoneyDeposited", "TransferReceived"} =>
              Balances(more)[e.account] = Balances(log)[e.account] + e.amount
        /\ e.type \in {"MoneyWithdrawn", "TransferSent"} =>
              Balances(more)[e.account] = Balances(log)[e.account] - e.amount
    BY <1>1, <1>6, AppliedState
  <1>8. Balances(more) = [a \in Accounts |-> Balances(more)[a]]
    BY DEF Balances
  <1>9. \A x : Balances(more)[e.account] = x =>
                  Balances(more) = [Balances(log) EXCEPT ![e.account] = x]
    BY <1>4, <1>5, <1>8
  <1> QED
    BY <1>3, <1>4, <1>7, <1>9 DEF more

LEMMA BalancesInt ==
  ASSUME LogInv(events), NEW a \in Accounts
  PROVE  ES!Reconstruct(events, a).balance \in Int
  <1>1. events \in Seq(LogEvents)
    BY DEF LogInv
  <1>2. Len(events) \in 0..Len(events)
    BY <1>1
  <1> QED
    BY <1>1, <1>2, ReplayedUnfolds DEF ES!Reconstruct, AccountStates

LEMMA EventsInitInv == ES!Init => LogInv(events)
  <1> SUFFICES ASSUME ES!Init PROVE LogInv(events)
    OBVIOUS
  <1>1. /\ events = <<>> /\ events \in Seq(LogEvents) /\ Len(events) = 0
        /\ 0..0 = {0} /\ 1..0 = {}
    BY DEF ES!Init
  <1>2. ASSUME NEW a PROVE ES!Replayed(events, a)[0] = ES!NoAccount
    BY <1>1, ReplayedUnfolds
  <1>3. ES!NoAccount.balance >= 0 /\ ES!NoAccount.version = 0
    BY DEF ES!NoAccount
  <1> QED
    BY <1>1, <1>2, <1>3 DEF LogInv, NeverInTheRed, LatestVersion, ES!Reconstruct

LEMMA EventsNextInv ==
  ASSUME LogInv(events), [ES!Next]_(ES!vars)
  PROVE  LogInv(events') /\ [ES!Book!Next]_<<ES!balances, ES!cash>>
  <1>1. CASE UNCHANGED ES!vars
    <2>1. events' = events
      BY <1>1 DEF ES!vars
    <2> QED
      BY <2>1, BookOfLog
  <1> DEFINE bal == Balances(events)
             Kept == LogInv(events') /\ [ES!Book!Next]_<<ES!balances, ES!cash>>
  <1>2. ASSUME NEW a \in Accounts, ES!CreateAccount(a) PROVE Kept
    <2> DEFINE e == ES!Event(events, "AccountCreated", a, 0)
    <2>1. events' = Append(events, e)
      BY <1>2 DEF ES!CreateAccount
    <2>2. Valid(events, e)
      BY EventValid DEF EventTypes
    <2>3. e.type = "AccountCreated" /\ e.account = a /\ ES!Moved(e) = 0
      BY DEF ES!Event, ES!Moved
    <2> HIDE DEF e
    <2>4. LogInv(events')
      BY <2>1, <2>2, AppendKeeps
    <2>5. /\ Balances(events') = [bal EXCEPT ![a] = 0]
          /\ CashOf(events') = CashOf(events)
      BY <2>1, <2>2, <2>3, BookAppend
    <2>6. ES!Book!Open(a)
      BY <2>5, BookOfLog DEF ES!Book!Open
    <2> QED
      BY <2>4, <2>6 DEF ES!Book!Next
  <1>3. ASSUME NEW a \in Accounts, NEW m \in Amounts, ES!Deposit(a, m) PROVE Kept
    <2> DEFINE e == ES!Event(events, "MoneyDeposited", a, m)
    <2>1. events' = Append(events, e) /\ m \in Nat
      BY <1>3, ServicesAssumption DEF ES!Deposit
    <2>2. Valid(events, e)
      BY <2>1, EventValid DEF EventTypes
    <2>3. e.type = "MoneyDeposited" /\ e.account = a /\ e.amount = m /\ ES!Moved(e) = m
      BY DEF ES!Event, ES!Moved
    <2> HIDE DEF e
    <2>4. LogInv(events')
      BY <2>1, <2>2, AppendKeeps
    <2>5. /\ Balances(events') = [bal EXCEPT ![a] = @ + m]
          /\ CashOf(events') = CashOf(events) + m
      BY <2>1, <2>2, <2>3, BookAppend
    <2>6. ES!Book!Deposit(a, m)
      BY <2>5, BookOfLog DEF ES!Book!Deposit
    <2> QED
      BY <2>4, <2>6 DEF ES!Book!Next
  <1>4. ASSUME NEW a \in Accounts, NEW m \in Amounts, ES!Withdraw(a, m) PROVE Kept
    <2>1. CASE ES!Reconstruct(events, a).balance < m
      <3>1. events' = events
        BY <1>4, <2>1 DEF ES!Withdraw
      <3> QED
        BY <3>1, BookOfLog
    <2>2. CASE ~(ES!Reconstruct(events, a).balance < m)
      <3> DEFINE e == ES!Event(events, "MoneyWithdrawn", a, m)
      <3>1. events' = Append(events, e) /\ m \in Nat
        BY <1>4, <2>2, ServicesAssumption DEF ES!Withdraw
      <3>2. bal[a] >= m /\ ES!Reconstruct(events, a).balance >= m
        BY <2>2, <3>1, BalancesInt DEF Balances
      <3>3. Valid(events, e)
        BY <3>1, <3>2, EventValid DEF EventTypes
      <3>4. /\ e.type = "MoneyWithdrawn" /\ e.account = a /\ e.amount = m
            /\ ES!Moved(e) = 0 - m
        BY DEF ES!Event, ES!Moved
      <3> HIDE DEF e
      <3>5. LogInv(events')
        BY <3>1, <3>3, AppendKeeps
      <3>6. /\ Balances(events') = [bal EXCEPT ![a] = @ - m]
            /\ CashOf(events') = CashOf(events) + (0 - m) /\ CashOf(events) \in Int
        BY <3>1, <3>3, <3>4, BookAppend
      <3>7. CashOf(events') = CashOf(events) - m
        BY <3>1, <3>6
      <3>8. ES!Book!Withdraw(a, m)
        BY <3>2, <3>6, <3>7, BookOfLog DEF ES!Book!Withdraw
      <3> QED
        BY <3>5, <3>8 DEF ES!Book!Next
    <2> QED
      BY <2>1, <2>2
  <1>5. ASSUME NEW a \in Accounts, NEW b \in Accounts, NEW m \in Amounts, ES!Transfer(a, b, m)
        PROVE  Kept
    <2>1. CASE ES!Reconstruct(events, a).balance < m
      <3>1. events' = events
        BY <1>5, <2>1 DEF ES!Transfer
      <3> QED
        BY <3>1, BookOfLog
    <2>2. CASE ~(ES!Reconstruct(events, a).balance < m)
      <3> DEFINE e == ES!Event(events, "TransferSent", a, m)
                 sent == Append(events, e)
                 f == ES!Event(sent, "TransferReceived", b, m)
      <3>1. events' = Append(sent, f) /\ m \in Nat
        BY <1>5, <2>2, ServicesAssumption DEF ES!Transfer
      <3>2. bal[a] >= m /\ ES!Reconstruct(events, a).balance >= m
        BY <2>2, <3>1, BalancesInt DEF Balances
      <3>3. Valid(events, e)
        BY <3>1, <3>2, EventValid DEF EventTypes
      <3>4. e.type = "TransferSent" /\ e.account = a /\ e.amount = m /\ ES!Moved(e) = 0
        BY DEF ES!Event, ES!Moved
      <3>5. f.type = "TransferReceived" /\ f.account = b /\ f.amount = m /\ ES!Moved(f) = 0
        BY DEF ES!Event, ES!Moved
      <3>6. LogInv(sent)
        <4> HIDE DEF e
        <4> QED
          BY <3>3, AppendKeeps
      <3>7. Valid(sent, f)
        <4> HIDE DEF sent
        <4> QED
          BY <3>1, <3>6, EventValid DEF EventTypes
      <3> HIDE DEF f
      <3>8. LogInv(events')
        <4> HIDE DEF sent
        <4> QED
          BY <3>1, <3>6, <3>7, AppendKeeps
      <3>9. /\ Balances(events') = [Balances(sent) EXCEPT ![b] = @ + m]
            /\ CashOf(events') = CashOf(sent) + 0 /\ CashOf(sent) \in Int
        <4> HIDE DEF sent
        <4> QED
          BY <3>1, <3>5, <3>6, <3>7, BookAppend
      <3>10. /\ bal \in [Accounts -> Int] /\ Balances(sent) = [bal EXCEPT ![a] = @ - m]
             /\ CashOf(sent) = CashOf(events) + 0 /\ CashOf(events) \in Int
        <4> HIDE DEF e
        <4> QED
          BY <3>3, <3>4, BookAppend
      <3> HIDE DEF sent, bal
      <3>11. CashOf(events') = CashOf(events)
        BY <3>9, <3>10
      <3>12. CASE a = b
        <4>1. Balances(events') = bal
          BY <3>1, <3>9, <3>10, <3>12
        <4> QED
          BY <3>8, <3>11, <4>1, BookOfLog DEF bal
      <3>13. CASE a # b
        <4>1. Balances(events') = [bal EXCEPT ![a] = @ - m, ![b] = @ + m]
          BY <3>9, <3>10, <3>13
        <4>2. ES!Book!Transfer(a, b, m)
          BY <3>2, <3>11, <3>13, <4>1, BookOfLog DEF ES!Book!Transfer, bal
        <4> QED
          BY <3>8, <4>2 DEF ES!Book!Next
      <3> QED
        BY <3>12, <3>13
    <2> QED
      BY <2>1, <2>2
  <1> HIDE DEF Kept
  <1>6. ASSUME ES!Next PROVE Kept
    BY <1>2, <1>3, <1>4, <1>5, <1>6 DEF ES!Next
  <1> QED
    BY <1>1, <1>6 DEF Kept

LEMMA LogInvReplays == LogInv(events) => ReplaysAtEveryVersion
  <1> SUFFICES ASSUME LogInv(events) PROVE ES!ReplaysAtEveryVersion
    BY DEF ReplaysAtEveryVersion
  <1> QED
    BY DEF LogInv, NeverInTheRed, Numbered, NextOf, ES!ReplaysAtEveryVersion, ES!Follows

(* Any accounts, amounts and commands, transfers to oneself and to accounts   *)
(* nobody created included: no replay to any point of the past shows a        *)
(* balance below 0, and the versions of an account count its events since it  *)
(* was last created.                                                          *)
THEOREM LogReplays == ES!Spec => []ReplaysAtEveryVersion
  <1>1. LogInv(events) /\ [ES!Next]_(ES!vars) => LogInv(events)'
    BY EventsNextInv
  <1> QED
    BY <1>1, EventsInitInv, LogInvReplays, PTL DEF ES!Spec

(* The event store implements the book of accounts: each command changes the  *)
(* replayed balances and the cash as the book allows, or not at all.          *)
THEOREM ImplementsLedger == ES!Spec => IsLedger
  <1>1. ES!Init => ES!Book!Init
    <2> SUFFICES ASSUME ES!Init PROVE ES!Book!Init
      OBVIOUS
    <2>1. events = <<>> /\ events \in Seq(LogEvents) /\ Len(events) = 0 /\ 0 \in 0..0
      BY DEF ES!Init
    <2>2. CashOf(events) = 0
      BY <2>1, CashUnfolds DEF CashOf
    <2>3. ASSUME NEW a PROVE ES!Reconstruct(events, a).balance = 0
      <3>1. ES!Replayed(events, a)[0] = ES!NoAccount
        BY <2>1, ReplayedUnfolds
      <3> QED
        BY <2>1, <3>1 DEF ES!Reconstruct, ES!NoAccount
    <2> QED
      BY <2>2, <2>3, BookOfLog DEF ES!Book!Init, Balances
  <1>2. LogInv(events) /\ [ES!Next]_(ES!vars) => LogInv(events)'
    BY EventsNextInv
  <1>3. LogInv(events) /\ [ES!Next]_(ES!vars) => [ES!Book!Next]_<<ES!balances, ES!cash>>
    BY EventsNextInv
  <1> QED
    BY <1>1, <1>2, <1>3, EventsInitInv, PTL DEF ES!Spec, IsLedger, ES!IsLedger, ES!Book!Spec

------------------------------------------------------------------------------
(* Metrics                                                                    *)

(* What the requests took, added up one by one.                               *)
TimeUpTo(s) == LET upTo[k \in 0..Len(s)] == IF k = 0 THEN 0 ELSE upTo[k - 1] + s[k]
               IN upTo

LEMMA TimeUnfolds ==
  ASSUME NEW s \in Seq(Nat)
  PROVE  SumsUp(TimeUpTo(s), Len(s), s) /\ StaysWithin(TimeUpTo(s), Len(s), Int)
  <1> DEFINE n == Len(s)
             Body(d) == [k \in 0..Len(s) |-> IF k = 0 THEN 0 ELSE d[k - 1] + s[k]]
             c == TimeUpTo(s)
  <1>1. n \in Nat /\ s \in [1..n -> Int] /\ 0 \in 0..n /\ \A k \in 1..n : k \in 0..n /\ k # 0
    OBVIOUS
  <1>2. PICK f \in [0..n -> Int] : SumsUp(f, n, s)
    BY <1>1, SumsExist
  <1>3. f = Body(f)
    BY <1>1, <1>2 DEF SumsUp
  <1>4. c = CHOOSE d : d = Body(d)
    BY DEF TimeUpTo
  <1>5. c = Body(c)
    BY <1>3, <1>4
  <1> HIDE DEF c
  <1>6. SumsUp(c, n, s)
    BY <1>1, <1>5 DEF SumsUp
  <1> HIDE DEF n
  <1>7. StaysWithin(c, n, Int)
    BY <1>1, <1>6, SumsExist
  <1> QED
    BY <1>6, <1>7 DEF c, n

LEMMA TimeAppend ==
  ASSUME NEW s \in Seq(Nat), NEW d \in Nat
  PROVE  TimeUpTo(Append(s, d))[Len(Append(s, d))] = TimeUpTo(s)[Len(s)] + d
  <1> DEFINE n == Len(s)
             more == Append(s, d)
             r == TimeUpTo(s)
             t == TimeUpTo(more)
  <1>1. /\ n \in Nat /\ more \in Seq(Nat) /\ Len(more) = n + 1
        /\ more[n + 1] = d /\ \A k \in 1..n : more[k] = s[k]
    OBVIOUS
  <1> HIDE DEF more
  <1>2. SumsUp(r, n, s) /\ SumsUp(t, n + 1, more)
    BY <1>1, TimeUnfolds
  <1> HIDE DEF r, t, n
  <1>3. StepAlike(t, r, n)
    BY <1>1, <1>2 DEF StepAlike, SumsUp
  <1>4. t[n] = r[n]
    <2>1. Alike(t, r, n) /\ n \in 0..n
      BY <1>1, <1>3, RecursionsAgree
    <2> QED
      BY <2>1 DEF Alike
  <1>5. t[n + 1] = t[n] + d
    <2>1. n + 1 \in 1..n + 1 /\ n + 1 - 1 = n
      BY <1>1
    <2> QED
      BY <1>1, <1>2, <2>1 DEF SumsUp
  <1> QED
    BY <1>1, <1>4, <1>5 DEF r, t, n, more

(* How many of the requests took no longer than b.                            *)
Within(s, b) == {i \in 1..Len(s) : s[i] <= b}

LEMMA WithinAppend ==
  ASSUME NEW s \in Seq(Nat), NEW d \in Nat, NEW b \in Nat
  PROVE  Cardinality(Within(Append(s, d), b))
            = Cardinality(Within(s, b)) + IF d <= b THEN 1 ELSE 0
  <1> DEFINE n == Len(s)
             more == Append(s, d)
  <1>1. /\ n \in Nat /\ Len(more) = n + 1 /\ more[n + 1] = d
        /\ \A k \in 1..n : more[k] = s[k]
    OBVIOUS
  <1> HIDE DEF more
  <1>2. IsFiniteSet(Within(s, b)) /\ n + 1 \notin Within(s, b)
    <2>1. IsFiniteSet(1..n) /\ Within(s, b) \in SUBSET (1..n)
      BY <1>1, FS_Interval DEF Within
    <2> QED
      BY <1>1, <2>1, FS_Subset DEF Within
  <1>3. Cardinality(Within(s, b)) \in Nat
    BY <1>2, FS_CardinalityType
  <1>4. CASE d <= b
    <2>1. Within(more, b) = Within(s, b) \union {n + 1}
      BY <1>1, <1>4 DEF Within
    <2> QED
      BY <1>2, <1>4, <2>1, FS_AddElement DEF more
  <1>5. CASE ~(d <= b)
    <2>1. Within(more, b) = Within(s, b)
      BY <1>1, <1>5 DEF Within
    <2> QED
      BY <1>3, <1>5, <2>1 DEF more
  <1> QED
    BY <1>4, <1>5

RequestPlaces == {"idle", "counted", "working", "observed"}

MetricsTypeOK ==
    /\ total \in Nat /\ active \in Int /\ sum \in Int /\ count \in Nat
    /\ buckets \in [Bounds -> Int] /\ took \in Seq(Durations)
    /\ place \in [Routes -> RequestPlaces]
    /\ reader \in {"idle", "counter", "gauge"}
    /\ page = [total |-> page.total, active |-> page.active, count |-> page.count,
               lines |-> page.lines]
    /\ page.total \in Nat /\ page.active \in Int /\ page.count \in Nat

Serving(places) == {h \in Routes : place[h] \in places}

(* The gauge and the counter count handlers, by where they are.               *)
HandlersCounted ==
    /\ active = Cardinality(Serving({"working", "observed"}))
    /\ total = count + Cardinality(Serving({"counted", "working"}))

HistogramCounts ==
    /\ count = Len(took) /\ sum = TimeUpTo(took)[Len(took)]
    /\ \A b \in Bounds : buckets[b] = Cardinality(Within(took, b))

(* The counter never goes back, and a page that is done was read within one   *)
(* round of handlers.                                                         *)
PageInTime ==
    /\ page.active <= Cardinality(Routes) /\ page.total <= total
    /\ reader = "idle" => page.total <= page.count + Cardinality(Routes)

MetricsInv == MetricsTypeOK /\ HandlersCounted /\ HistogramCounts /\ PageInTime

LEMMA ServingFinite ==
  ASSUME NEW places
  PROVE  /\ IsFiniteSet(Serving(places)) /\ Cardinality(Serving(places)) \in Nat
         /\ Cardinality(Serving(places)) <= Cardinality(Routes) /\ Cardinality(Routes) \in Nat
  <1>1. Serving(places) \in SUBSET Routes
    BY DEF Serving
  <1> QED
    BY <1>1, ServicesAssumption, FS_Subset, FS_CardinalityType

(* One handler moves.                                                         *)
LEMMA ServingMoves ==
  ASSUME MetricsTypeOK, NEW h \in Routes, NEW p, place' = [place EXCEPT ![h] = p], NEW places
  PROVE  Cardinality(Serving(places)')
            = Cardinality(Serving(places)) + (IF p \in places THEN 1 ELSE 0)
                                           - (IF place[h] \in places THEN 1 ELSE 0)
  <1> DEFINE before == Serving(places)
             behind == Serving(places)'
  <1>1. place'[h] = p /\ \A g \in Routes : g # h => place'[g] = place[g]
    BY DEF MetricsTypeOK
  <1>2. IsFiniteSet(before) /\ Cardinality(before) \in Nat
    BY ServingFinite
  <1>3. CASE p \in places
    <2>1. behind = before \union {h}
      BY <1>1, <1>3 DEF Serving
    <2>2. h \in before <=> place[h] \in places
      BY DEF Serving
    <2> HIDE DEF before, behind
    <2>3. Cardinality(behind) = IF h \in before THEN Cardinality(before)
                                ELSE Cardinality(before) + 1
      BY <1>2, <2>1, FS_AddElement
    <2> QED
      BY <1>2, <1>3, <2>2, <2>3 DEF before, behind
  <1>4. CASE p \notin places
    <2>1. behind = before \ {h}
      BY <1>1, <1>4 DEF Serving
    <2>2. h \in before <=> place[h] \in places
      BY DEF Serving
    <2> HIDE DEF before, behind
    <2>3. Cardinality(behind) = IF h \in before THEN Cardinality(before) - 1
                                ELSE Cardinality(before)
      BY <1>2, <2>1, FS_RemoveElement
    <2> QED
      BY <1>2, <1>4, <2>2, <2>3 DEF before, behind
  <1> QED
    BY <1>3, <1>4

LEMMA MetricsInitInv == MT!Init => MetricsInv
  <1> SUFFICES ASSUME MT!Init PROVE MetricsInv
    OBVIOUS
  <1>1. /\ total = 0 /\ active = 0 /\ sum = 0 /\ count = 0 /\ took = <<>> /\ reader = "idle"
        /\ place = [h \in Routes |-> "idle"] /\ buckets = [b \in Bounds |-> 0]
        /\ page = [total |-> 0, active |-> 0, count |-> 0, lines |-> buckets]
    BY DEF MT!Init
  <1>2. took \in Seq(Nat) /\ took \in Seq(Durations) /\ Len(took) = 0 /\ 1..0 = {}
    BY <1>1
  <1>3. MetricsTypeOK
    BY <1>1, <1>2 DEF MetricsTypeOK, RequestPlaces
  <1>4. ASSUME NEW places, "idle" \notin places PROVE Cardinality(Serving(places)) = 0
    <2>1. Serving(places) = {}
      BY <1>1, <1>4 DEF Serving
    <2> QED
      BY <2>1, FS_EmptySet
  <1>5. HandlersCounted
    <2>1. /\ Cardinality(Serving({"working", "observed"})) = 0
          /\ Cardinality(Serving({"counted", "working"})) = 0
      BY <1>4
    <2> QED
      BY <1>1, <2>1 DEF HandlersCounted
  <1>6. HistogramCounts
    <2>1. TimeUpTo(took)[Len(took)] = 0
      BY <1>2, TimeUnfolds DEF SumsUp
    <2>2. \A b \in Bounds : Within(took, b) = {}
      BY <1>2 DEF Within
    <2> QED
      BY <1>1, <1>2, <2>1, <2>2, FS_EmptySet DEF HistogramCounts
  <1>7. PageInTime
    BY <1>1, ServingFinite DEF PageInTime
  <1> QED
    BY <1>3, <1>5, <1>6, <1>7 DEF MetricsInv

(* A handler moves on without an observation.                                 *)
LEMMA HandlerMoves ==
  ASSUME MetricsInv, NEW h \in Routes,
         \/ MT!CountRequest(h) \/ MT!Begin(h) \/ MT!Leave(h)
  PROVE  MetricsInv'
  <1>1. MetricsTypeOK /\ HandlersCounted /\ HistogramCounts /\ PageInTime
    BY DEF MetricsInv
  <1>2. UNCHANGED <<buckets, sum, count, reader, page, took>>
    BY DEF MT!CountRequest, MT!Begin, MT!Leave, MT!histogram
  <1>3. PICK p \in RequestPlaces :
           /\ place' = [place EXCEPT ![h] = p]
           /\ \/ /\ place[h] = "idle" /\ p = "counted"
                 /\ total' = total + 1 /\ active' = active
              \/ /\ place[h] = "counted" /\ p = "working"
                 /\ total' = total /\ active' = active + 1
              \/ /\ place[h] = "observed" /\ p = "idle"
                 /\ total' = total /\ active' = active - 1
    BY DEF MT!CountRequest, MT!Begin, MT!Leave, MT!To, RequestPlaces
  <1>4. MetricsTypeOK'
    <2>1. total' \in Nat /\ active' \in Int /\ place' \in [Routes -> RequestPlaces]
      BY <1>1, <1>3 DEF MetricsTypeOK
    <2> QED
      BY <1>1, <1>2, <2>1 DEF MetricsTypeOK
  <1>5. HandlersCounted'
    <2> DEFINE busy == {"working", "observed"}
               open == {"counted", "working"}
    <2>1. /\ Cardinality(Serving(busy)') = Cardinality(Serving(busy))
                + (IF p \in busy THEN 1 ELSE 0) - (IF place[h] \in busy THEN 1 ELSE 0)
          /\ Cardinality(Serving(open)') = Cardinality(Serving(open))
                + (IF p \in open THEN 1 ELSE 0) - (IF place[h] \in open THEN 1 ELSE 0)
      BY <1>1, <1>3, ServingMoves
    <2>2. Cardinality(Serving(busy)) \in Nat /\ Cardinality(Serving(open)) \in Nat
      BY ServingFinite
    <2>3. active' = Cardinality(Serving(busy)')
      BY <1>1, <1>3, <2>1, <2>2 DEF HandlersCounted
    <2>4. total' = count' + Cardinality(Serving(open)')
      BY <1>1, <1>2, <1>3, <2>1, <2>2 DEF HandlersCounted, MetricsTypeOK
    <2> QED
      BY <2>3, <2>4 DEF HandlersCounted
  <1>6. HistogramCounts'
    BY <1>1, <1>2 DEF HistogramCounts
  <1>7. PageInTime'
    BY <1>1, <1>2, <1>3, ServingFinite DEF PageInTime, MetricsTypeOK
  <1> QED
    BY <1>4, <1>5, <1>6, <1>7 DEF MetricsInv

(* A request has been served: one observation more.                           *)
LEMMA EndKeeps ==
  ASSUME MetricsInv, NEW h \in Routes, NEW d \in Durations, MT!End(h, d)
  PROVE  MetricsInv'
  <1>1. MetricsTypeOK /\ HandlersCounted /\ HistogramCounts /\ PageInTime
    BY DEF MetricsInv
  <1>2. UNCHANGED <<total, active, reader, page>>
    BY DEF MT!End
  <1>3. /\ place[h] = "working" /\ place' = [place EXCEPT ![h] = "observed"]
        /\ took' = Append(took, d) /\ sum' = sum + d /\ count' = count + 1
        /\ buckets' = [b \in Bounds |-> buckets[b] + IF d <= b THEN 1 ELSE 0]
    BY DEF MT!End, MT!Observe, MT!To
  <1>4. d \in Nat /\ Bounds \subseteq Nat /\ took \in Seq(Nat) /\ Len(took) \in Nat
    BY <1>1, ServicesAssumption DEF MetricsTypeOK
  <1>5. MetricsTypeOK'
    <2>1. place' \in [Routes -> RequestPlaces] /\ buckets' \in [Bounds -> Int]
      BY <1>1, <1>3 DEF MetricsTypeOK, RequestPlaces
    <2>2. took' \in Seq(Durations) /\ sum' \in Int /\ count' \in Nat
      BY <1>1, <1>3, <1>4 DEF MetricsTypeOK
    <2> QED
      BY <1>1, <1>2, <2>1, <2>2 DEF MetricsTypeOK
  <1>6. HandlersCounted'
    <2> DEFINE busy == {"working", "observed"}
               open == {"counted", "working"}
    <2>1. /\ Cardinality(Serving(busy)') = Cardinality(Serving(busy))
                + (IF "observed" \in busy THEN 1 ELSE 0) - (IF place[h] \in busy THEN 1 ELSE 0)
          /\ Cardinality(Serving(open)') = Cardinality(Serving(open))
                + (IF "observed" \in open THEN 1 ELSE 0) - (IF place[h] \in open THEN 1 ELSE 0)
      BY <1>1, <1>3, ServingMoves
    <2>2. Cardinality(Serving(busy)) \in Nat /\ Cardinality(Serving(open)) \in Nat
      BY ServingFinite
    <2>3. active' = Cardinality(Serving(busy)')
      BY <1>1, <1>2, <1>3, <2>1, <2>2 DEF HandlersCounted
    <2>4. total' = count' + Cardinality(Serving(open)')
      BY <1>1, <1>2, <1>3, <2>1, <2>2 DEF HandlersCounted, MetricsTypeOK
    <2> QED
      BY <2>3, <2>4 DEF HandlersCounted
  <1>7. HistogramCounts'
    <2>1. count' = Len(took')
      BY <1>1, <1>3, <1>4 DEF HistogramCounts
    <2>2. sum' = TimeUpTo(took')[Len(took')]
      BY <1>1, <1>3, <1>4, TimeAppend DEF HistogramCounts
    <2>3. \A b \in Bounds : buckets'[b] = Cardinality(Within(took', b))
      BY <1>1, <1>3, <1>4, WithinAppend DEF HistogramCounts
    <2> QED
      BY <2>1, <2>2, <2>3 DEF HistogramCounts
  <1>8. PageInTime'
    BY <1>1, <1>2 DEF PageInTime
  <1> QED
    BY <1>5, <1>6, <1>7, <1>8 DEF MetricsInv

LEMMA ExposeKeeps == ASSUME MetricsInv, MT!Expose PROVE MetricsInv'
  <1>1. MetricsTypeOK /\ HandlersCounted /\ HistogramCounts /\ PageInTime
    BY DEF MetricsInv
  <1>2. UNCHANGED <<total, active, buckets, sum, count, place, took>>
    BY DEF MT!Expose, MT!histogram
  <1>3. HandlersCounted' /\ HistogramCounts'
    BY <1>1, <1>2 DEF HandlersCounted, HistogramCounts, Serving
  <1>4. page = [total |-> page.total, active |-> page.active, count |-> page.count,
                lines |-> page.lines]
    BY <1>1 DEF MetricsTypeOK
  <1>5. \E lines :
           \/ /\ reader = "idle" /\ reader' = "counter"
              /\ page' = [total |-> total, active |-> page.active, count |-> page.count,
                          lines |-> page.lines]
           \/ /\ reader = "counter" /\ reader' = "gauge"
              /\ page' = [total |-> page.total, active |-> active, count |-> page.count,
                          lines |-> page.lines]
           \/ /\ reader = "gauge" /\ reader' = "idle"
              /\ page' = [total |-> page.total, active |-> page.active, count |-> count,
                          lines |-> lines]
    BY <1>4 DEF MT!Expose
  <1>6. MetricsTypeOK'
    BY <1>1, <1>2, <1>5 DEF MetricsTypeOK
  <1>7. /\ active <= Cardinality(Routes) /\ total <= count + Cardinality(Routes)
    BY <1>1, ServingFinite DEF HandlersCounted, MetricsTypeOK
  <1>8. /\ page'.active \in {page.active, active} /\ page'.total \in {page.total, total}
        /\ reader' = "idle" =>
              page'.count = count /\ page'.total = page.total
    BY <1>5
  <1>9. PageInTime'
    <2>1. /\ Cardinality(Routes) \in Nat /\ total \in Nat /\ count \in Nat /\ active \in Int
          /\ page.total \in Nat /\ page.active \in Int
      BY <1>1, ServingFinite DEF MetricsTypeOK
    <2>2. page.active <= Cardinality(Routes) /\ page.total <= total
      BY <1>1 DEF PageInTime
    <2>3. page'.active <= Cardinality(Routes) /\ page'.total <= total
      BY <1>7, <1>8, <2>1, <2>2
    <2>4. reader' = "idle" => page'.total <= page'.count + Cardinality(Routes)
      BY <1>7, <1>8, <2>1, <2>2
    <2> QED
      BY <1>2, <2>3, <2>4 DEF PageInTime
  <1> QED
    BY <1>3, <1>6, <1>9 DEF MetricsInv

LEMMA MetricsNextInv == MetricsInv /\ [MT!Next]_(MT!vars) => MetricsInv'
  <1> SUFFICES ASSUME MetricsInv, [MT!Next]_(MT!vars) PROVE MetricsInv'
    OBVIOUS
  <1>1. CASE UNCHANGED MT!vars
    BY <1>1 DEF MT!vars, MT!histogram, MetricsInv, MetricsTypeOK, HandlersCounted,
                HistogramCounts, PageInTime, Serving
  <1>2. CASE MT!Next
    BY <1>2, HandlerMoves, EndKeeps, ExposeKeeps DEF MT!Next
  <1> QED
    BY <1>1, <1>2

LEMMA MetricsInvAgrees == MetricsInv => MetricsAgree
  <1> SUFFICES ASSUME MetricsInv PROVE MT!MetricsAgree
    BY DEF MetricsAgree
  <1>1. \A S : MT!Cardinality(S) = Cardinality(S)
    BY DEF MT!Cardinality, Cardinality
  <1>2. \A places : MT!At(places) = Cardinality(Serving(places))
    BY <1>1 DEF MT!At, Serving
  <1>3. MT!AddedUp = TimeUpTo(took)[Len(took)]
    BY DEF MT!AddedUp, TimeUpTo
  <1> QED
    BY <1>1, <1>2, <1>3 DEF MetricsInv, HandlersCounted, HistogramCounts, PageInTime, Within,
                            MT!MetricsAgree

(* Any finite number of handlers, and a page read metric by metric while they *)
(* work: counter, gauge and histogram agree with each other at every moment,  *)
(* and a page is off by no more than the handlers there are.                  *)
THEOREM MetricsHangTogether == MT!Spec => []MetricsAgree
  BY MetricsInitInv, MetricsNextInv, MetricsInvAgrees, PTL DEF MT!Spec
------------------------------------------------------------------------------
(* CircuitBreaker: CircuitBreakerProof proves that with one caller the breaker *)
(* is its documented protocol; here the breaker of the composition is shown to *)
(* be that breaker.                                                           *)
BP == INSTANCE CircuitBreakerProof

LEMMA SameBreakerBegins ==
  /\ CB!Init <=> BP!Init
  /\ BP!Protocol!Init <=> CB!Protocol!Init
  <1>1. CB!Init <=> BP!Init
    BY DEF CB!Init, BP!Init
  <1>2. BP!Protocol!Init <=> CB!Protocol!Init
    BY DEF BP!Protocol!Init, CB!Protocol!Init, BP!Tally, CB!Tally
  <1> QED
    BY <1>1, <1>2

LEMMA SameBreakerSteps == [CB!Next]_(CB!vars) => [BP!Next]_(BP!vars)
  <1>1. CB!Next => BP!Next
    BY DEF CB!Next, BP!Next, CB!Begin, BP!Begin, CB!Return, BP!Return,
           CB!Reject, BP!Reject, CB!Probe, BP!Probe, CB!Admit, BP!Admit,
           CB!Fail, BP!Fail, CB!Trips, BP!Trips, CB!TrialSuccess,
           BP!TrialSuccess, CB!Recovers, BP!Recovers, CB!NormalSuccess,
           BP!NormalSuccess, CB!Tick, BP!Tick, CB!ServiceFlips,
           BP!ServiceFlips, CB!breaker, BP!breaker, CB!CooldownOver,
           BP!CooldownOver
  <1>2. UNCHANGED CB!vars => UNCHANGED BP!vars
    BY DEF CB!vars, BP!vars
  <1> QED
    BY <1>1, <1>2

LEMMA SameProtocolSteps ==
  [BP!Protocol!Next]_(BP!Protocol!vars) => [CB!Protocol!Next]_(CB!Protocol!vars)
  <1>1. BP!Protocol!Next => CB!Protocol!Next
    BY DEF BP!Protocol!Next, CB!Protocol!Next, BP!Protocol!Probe,
           CB!Protocol!Probe, BP!Protocol!CountFailure,
           CB!Protocol!CountFailure, BP!Protocol!Trip, CB!Protocol!Trip,
           BP!Protocol!Reopen, CB!Protocol!Reopen, BP!Protocol!CountTrial,
           CB!Protocol!CountTrial, BP!Protocol!Recover, CB!Protocol!Recover,
           BP!Protocol!ForgetFailures, CB!Protocol!ForgetFailures, BP!Tally,
           CB!Tally
  <1>2. UNCHANGED BP!Protocol!vars => UNCHANGED CB!Protocol!vars
    BY DEF BP!Protocol!vars, CB!Protocol!vars, BP!Tally, CB!Tally
  <1> QED
    BY <1>1, <1>2

(* A caller on its own moves the breaker of the composition by the documented *)
(* protocol only; with two the reopen run of CircuitBreaker refutes it.       *)
THEOREM BreakerFollowsProtocol ==
  ASSUME \A c, d \in Callers : c = d
  PROVE  CB!Spec => FollowsProtocol
  <1>1. BP!Spec => BP!FollowsProtocol
    BY ServicesAssumption, BP!OneCallerFollowsProtocol
       DEF CB!BreakerAssumption, BP!BreakerAssumption
  <1>2. BP!FollowsProtocol => FollowsProtocol
    BY SameBreakerBegins, SameProtocolSteps, PTL
       DEF FollowsProtocol, CB!FollowsProtocol, CB!Protocol!Spec,
           BP!FollowsProtocol, BP!Protocol!Spec
  <1> QED
    BY <1>1, <1>2, SameBreakerBegins, SameBreakerSteps, PTL DEF BP!Spec, CB!Spec

------------------------------------------------------------------------------
(* The composition: what one service does leaves the others as they are, so a *)
(* run of the composition is a run of each.                                   *)
LEMMA ServicesBegin ==
  ServicesInit => /\ Init /\ GS!Init /\ TS!Init /\ SR!Init /\ ES!Init
                  /\ MQ!KafkaInit /\ MQ!NSQInit /\ US!Init /\ AC!Init
                  /\ MT!Init /\ HS!Init /\ OT!Init /\ CB!Init
  BY DEF ServicesInit

LEMMA ServicesApart ==
  [ServicesNext]_allVars =>
     /\ [Next]_vars /\ [GS!Next]_(GS!vars) /\ [TS!Next]_(TS!vars)
     /\ [SR!Next]_(SR!vars) /\ [ES!Next]_(ES!vars)
     /\ [MQ!KafkaNext]_(MQ!kafkaVars) /\ [MQ!NSQNext]_(MQ!nsqVars)
     /\ [US!Next]_(US!vars) /\ [AC!Next]_(AC!vars) /\ [MT!Next]_(MT!vars)
     /\ [HS!Next]_(HS!vars) /\ [OT!Next]_(OT!vars) /\ [CB!Next]_(CB!vars)
  <1>1. /\ UNCHANGED shutdownVars => UNCHANGED GS!vars
        /\ UNCHANGED tcpVars => UNCHANGED TS!vars
        /\ UNCHANGED registryVars => UNCHANGED SR!vars
        /\ UNCHANGED eventsVars => UNCHANGED ES!vars
    BY DEF shutdownVars, tcpVars, registryVars, eventsVars, GS!vars, TS!vars,
           SR!vars, ES!vars
  <1>2. /\ UNCHANGED kafkaVars => UNCHANGED MQ!kafkaVars
        /\ UNCHANGED nsqVars => UNCHANGED MQ!nsqVars
        /\ UNCHANGED rpcVars => UNCHANGED US!vars
        /\ UNCHANGED accountsVars => UNCHANGED AC!vars
    BY DEF kafkaVars, nsqVars, rpcVars, accountsVars, MQ!kafkaVars, MQ!consumer,
           MQ!nsqVars, US!vars, US!lock, AC!vars, AC!store, AC!tokens
  <1>3. /\ UNCHANGED metricsVars => UNCHANGED MT!vars
        /\ UNCHANGED httpVars => UNCHANGED HS!vars
        /\ UNCHANGED ordersVars => UNCHANGED OT!vars
        /\ UNCHANGED breakerVars => UNCHANGED CB!vars
    BY DEF metricsVars, httpVars, ordersVars, breakerVars, MT!vars,
           MT!histogram, HS!vars, OT!vars, OT!tables, CB!vars
  <1>4. ServicesNext \/ UNCHANGED allVars =>
           \/ UNCHANGED allVars \/ LimiterStep \/ BreakerStep \/ ShutdownStep
           \/ TcpStep \/ RegistryStep \/ EventsStep \/ KafkaStep \/ NsqStep
           \/ RpcStep \/ AccountsStep \/ MetricsStep \/ HttpStep \/ OrdersStep
    BY DEF ServicesNext
  <1> SUFFICES ASSUME [ServicesNext]_allVars
               PROVE  /\ [Next]_vars /\ [GS!Next]_(GS!vars) /\ [TS!Next]_(TS!vars)
                      /\ [SR!Next]_(SR!vars) /\ [ES!Next]_(ES!vars)
                      /\ [MQ!KafkaNext]_(MQ!kafkaVars) /\ [MQ!NSQNext]_(MQ!nsqVars)
                      /\ [US!Next]_(US!vars) /\ [AC!Next]_(AC!vars)
                      /\ [MT!Next]_(MT!vars) /\ [HS!Next]_(HS!vars)
                      /\ [OT!Next]_(OT!vars) /\ [CB!Next]_(CB!vars)
    OBVIOUS
  <1>5. CASE UNCHANGED allVars
    BY <1>1, <1>2, <1>3, <1>5 DEF allVars
  <1>6. CASE LimiterStep
    BY <1>1, <1>2, <1>3, <1>6 DEF LimiterStep
  <1>7. CASE BreakerStep
    BY <1>1, <1>2, <1>3, <1>7 DEF BreakerStep
  <1>8. CASE ShutdownStep
    BY <1>1, <1>2, <1>3, <1>8 DEF ShutdownStep
  <1>9. CASE TcpStep
    BY <1>1, <1>2, <1>3, <1>9 DEF TcpStep
  <1>10. CASE RegistryStep
    BY <1>1, <1>2, <1>3, <1>10 DEF RegistryStep
  <1>11. CASE EventsStep
    BY <1>1, <1>2, <1>3, <1>11 DEF EventsStep
  <1>12. CASE KafkaStep
    BY <1>1, <1>2, <1>3, <1>12 DEF KafkaStep
  <1>13. CASE NsqStep
    BY <1>1, <1>2, <1>3, <1>13 DEF NsqStep
  <1>14. CASE RpcStep
    BY <1>1, <1>2, <1>3, <1>14 DEF RpcStep
  <1>15. CASE AccountsStep
    BY <1>1, <1>2, <1>3, <1>15 DEF AccountsStep
  <1>16. CASE MetricsStep
    BY <1>1, <1>2, <1>3, <1>16 DEF MetricsStep
  <1>17. CASE HttpStep
    BY <1>1, <1>2, <1>3, <1>17 DEF HttpStep
  <1>18. CASE OrdersStep
    BY <1>1, <1>2, <1>3, <1>18 DEF OrdersStep
  <1> QED
    BY <1>4, <1>5, <1>6, <1>7, <1>8, <1>9, <1>10, <1>11,
       <1>12, <1>13, <1>14, <1>15, <1>16, <1>17, <1>18

(* What the run checks of the composition, for all constants at once.         *)
THEOREM ServicesKeepTheirPromises ==
  ServicesSpec =>
     /\ [](/\ LimiterInv /\ NothingLostInShutdown /\ GoodbyeIsTrue
           /\ HealthIsRecent /\ ReplaysAtEveryVersion
           /\ DeliveriesAccountedFor /\ ListsOneMoment
           /\ AccountsHangTogether /\ MetricsAgree)
     /\ IsLedger
     /\ (\A c, d \in Callers : c = d) => FollowsProtocol
  <1>1. ServicesInit /\ [][ServicesNext]_allVars =>
           /\ Spec /\ GS!Spec /\ TS!Spec /\ SR!Spec /\ ES!Spec /\ MQ!KafkaSpec
           /\ MQ!NSQSpec /\ US!Spec /\ AC!Spec /\ MT!Spec /\ HS!Spec /\ OT!Spec
           /\ CB!Spec
    BY ServicesBegin, ServicesApart, PTL
       DEF Spec, GS!Spec, TS!Spec, SR!Spec, ES!Spec, MQ!KafkaSpec, MQ!NSQSpec,
           US!Spec, AC!Spec, MT!Spec, HS!Spec, OT!Spec, CB!Spec
  <1>2. CB!Spec => ((\A c, d \in Callers : c = d) => FollowsProtocol)
    BY BreakerFollowsProtocol
  <1> QED
    BY <1>1, <1>2, LimiterSafe, ShutdownSafe, GoodbyeMeansClosed,
       HealthFollowsHeartbeats, LogReplays, ImplementsLedger,
       DeliveriesAreAccountedFor, ListsAreOfOneMoment, RecordsHangTogether,
       MetricsHangTogether, PTL DEF ServicesSpec
==============================================================================
