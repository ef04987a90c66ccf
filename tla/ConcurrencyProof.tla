--------------------------- MODULE ConcurrencyProof ---------------------------
(* Proofs about the programs of Concurrency, for all values of their          *)
(* constants.                                                                 *)
EXTENDS Concurrency, Induction, FiniteSetTheorems

------------------------------------------------------------------------------
(* WorkerPool                                                                 *)

PoolBusy == {"select", "process", "send", "sendAndReturn"}

(* How far a worker is and what it holds agree, and the ends of the pool   *)
(* come in order: jobs closed, workers done, results closed, loop ended.   *)
PoolProgress ==
    /\ \A w \in Workers : pc[w] \in PoolBusy <=> hand[w] # 0
    /\ \A w \in Workers : hand[w] \in 0..taken
    /\ \A i \in 1..Len(out) : out[i].job \in 1..taken
    /\ jobsClosed => submitted = NJobs
    /\ finished => resultsClosed /\ collected = Len(out)

(* A worker stops, and a result says "ctx", only for one of two reasons.   *)
PoolReasons ==
    /\ \A w \in Workers :
         /\ pc[w] = "sendAndReturn" => cancelled
         /\ pc[w] \in {"send", "sendAndReturn"} /\ verdict[w] = "ctx" => cancelled
         /\ pc[w] = "done" => cancelled \/ (jobsClosed /\ taken = submitted)
    /\ \A i \in 1..Len(out) : out[i].err = "ctx" => cancelled

(* After the cancellation a worker on its way to the range takes one more  *)
(* job, and a worker with that job in hand goes nowhere but out.           *)
PoolLate ==
    \A w \in Workers :
        /\ late[w] \in {0, 1}
        /\ late[w] = 1 => /\ cancelled
                          /\ pc[w] \in {"select", "sendAndReturn", "done"}

PoolIInv == TypeOK /\ PoolProgress /\ JobsConserved /\ ResultsClosedLast /\ PoolReasons /\ PoolLate

LEMMA PoolInitInv == Init => PoolIInv
  <1> SUFFICES ASSUME Init PROVE PoolIInv
    OBVIOUS
  <1> USE PoolAssumption DEF Init
  <1>0. out = <<>> /\ Len(out) = 0 /\ out \in Seq([job : 1..NJobs, err : Errs])
    OBVIOUS
  <1>a. /\ submitted \in 0..NJobs /\ taken \in 0..submitted
        /\ hand \in [Workers -> 0..NJobs] /\ late \in [Workers -> Nat]
        /\ collected \in 0..0
    OBVIOUS
  <1>b. /\ pc \in [Workers -> {"range", "select", "process", "send",
                               "sendAndReturn", "done"}]
        /\ verdict \in [Workers -> Errs]
    BY DEF Errs
  <1>c. /\ jobsClosed \in BOOLEAN /\ resultsClosed \in BOOLEAN
        /\ finished \in BOOLEAN /\ cancelled \in BOOLEAN
    OBVIOUS
  <1>1. Len(out) = 0 /\ TypeOK
    BY <1>0, <1>a, <1>b, <1>c DEF TypeOK
  <1>2. PoolProgress /\ JobsConserved
    BY <1>1 DEF PoolProgress, PoolBusy, JobsConserved
  <1>3. ResultsClosedLast /\ PoolReasons /\ PoolLate
    BY <1>1 DEF ResultsClosedLast, PoolReasons, PoolLate
  <1> QED
    BY <1>1, <1>2, <1>3 DEF PoolIInv

(* A step that moves no job keeps them.                                    *)
LEMMA PoolUnmoved == JobsConserved /\ UNCHANGED <<hand, taken, out>> => JobsConserved'
  BY DEF JobsConserved

(* A worker takes a job nobody holds and no result is about.               *)
LEMMA TakeConserves ==
  ASSUME NEW w \in Workers, TypeOK, PoolProgress, JobsConserved, Take(w)
  PROVE  JobsConserved'
  <1> USE DEF TypeOK, PoolProgress, JobsConserved, Take, PoolBusy, output
  <1>1. /\ out' = out /\ taken' = taken + 1 /\ hand[w] = 0 /\ hand'[w] = taken + 1
        /\ \A v \in Workers \ {w} : hand'[v] = hand[v]
    OBVIOUS
  <1>2. \A v \in Workers : hand[v] # taken + 1
    OBVIOUS
  <1>3. \A i \in 1..Len(out) : out[i].job # taken + 1
    OBVIOUS
  <1>4. \A u, v \in Workers : hand'[u] # 0 /\ hand'[u] = hand'[v] => u = v
    BY <1>1, <1>2
  <1>5. ASSUME NEW n \in 1..taken'
        PROVE  (\E v \in Workers : hand'[v] = n)
                  <=> ~ \E i \in 1..Len(out') : out'[i].job = n
    <2>1. CASE n = taken + 1
      BY <2>1, <1>1, <1>3
    <2>2. CASE n # taken + 1
      <3>1. n \in 1..taken
        BY <2>2, <1>1
      <3>2. (\E v \in Workers : hand'[v] = n) <=> (\E v \in Workers : hand[v] = n)
        BY <3>1, <1>1
      <3>3. (\E v \in Workers : hand[v] = n) <=> ~ \E i \in 1..Len(out) : out[i].job = n
        BY <3>1
      <3> QED
        BY <3>2, <3>3, <1>1
    <2> QED
      BY <2>1, <2>2
  <1>6. \A i, j \in 1..Len(out') : out'[i].job = out'[j].job => i = j
    BY <1>1
  <1> QED
    BY <1>1, <1>4, <1>5, <1>6

(* Sending turns the job in a hand into the job of the newest result.      *)
LEMMA SendConserves ==
  ASSUME NEW w \in Workers, TypeOK, PoolProgress, JobsConserved, Send(w)
  PROVE  JobsConserved'
  <1> USE DEF TypeOK, PoolProgress, JobsConserved, Send, PoolBusy, output
  <1> DEFINE new == [job |-> hand[w], err |-> verdict[w]]
  <1>1. /\ out' = Append(out, new) /\ taken' = taken /\ new.job = hand[w]
        /\ hand'[w] = 0 /\ \A v \in Workers \ {w} : hand'[v] = hand[v]
    OBVIOUS
  <1>2. hand[w] \in 1..taken
    OBVIOUS
  <1>3. /\ Len(out') = Len(out) + 1 /\ out'[Len(out) + 1] = new
        /\ \A i \in 1..Len(out) : out'[i] = out[i]
    BY <1>1
  <1>4. \A i \in 1..Len(out) : out[i].job # hand[w]
    BY <1>2
  <1>5. \A i, j \in 1..Len(out') : out'[i].job = out'[j].job => i = j
    BY <1>1, <1>3, <1>4
  <1>6. \A u, v \in Workers : hand'[u] # 0 /\ hand'[u] = hand'[v] => u = v
    BY <1>1
  <1>7. ASSUME NEW n \in 1..taken
        PROVE  (\E v \in Workers : hand'[v] = n)
                  <=> ~ \E i \in 1..Len(out') : out'[i].job = n
    <2>1. CASE n = hand[w]
      BY <2>1, <1>1, <1>3
    <2>2. CASE n # hand[w]
      <3>1. (\E v \in Workers : hand'[v] = n) <=> (\E v \in Workers : hand[v] = n)
        BY <2>2, <1>1
      <3>2. (\E i \in 1..Len(out') : out'[i].job = n)
              <=> (\E i \in 1..Len(out) : out[i].job = n)
        BY <2>2, <1>1, <1>3
      <3> QED
        BY <3>1, <3>2
    <2> QED
      BY <2>1, <2>2
  <1> QED
    BY <1>1, <1>5, <1>6, <1>7

LEMMA PoolNextInv == PoolIInv /\ [Next]_vars => PoolIInv'
  <1> SUFFICES ASSUME PoolIInv, [Next]_vars PROVE PoolIInv'
    OBVIOUS
  <1> USE PoolAssumption
       DEF PoolIInv, TypeOK, PoolProgress, JobsConserved, ResultsClosedLast, PoolReasons,
           PoolLate, PoolBusy, Errs, worker, input, output, vars
  <1>1. CASE Submit
    BY <1>1 DEF Submit
  <1>2. CASE Close
    BY <1>2 DEF Close
  <1>3. ASSUME NEW w \in Workers, Take(w) PROVE PoolIInv'
    <2>1. TypeOK'
      BY <1>3 DEF Take
    <2>2. PoolProgress'
      BY <1>3 DEF Take
    <2>3. JobsConserved'
      BY <1>3, TakeConserves
    <2>4. ResultsClosedLast'
      BY <1>3 DEF Take
    <2>5. PoolReasons'
      BY <1>3 DEF Take
    <2>6. PoolLate'
      BY <1>3 DEF Take
    <2> QED
      BY <2>1, <2>2, <2>3, <2>4, <2>5, <2>6
  <1>4. ASSUME NEW w \in Workers, SelectDone(w) PROVE PoolIInv'
    <2>0. \/ /\ cancelled /\ pc' = [pc EXCEPT ![w] = "sendAndReturn"]
             /\ verdict' = [verdict EXCEPT ![w] = "ctx"]
          \/ ~cancelled /\ pc' = [pc EXCEPT ![w] = "process"] /\ verdict' = verdict
      BY <1>4 DEF SelectDone
    <2>1. TypeOK'
      <3>1. UNCHANGED <<input, taken, hand, late, output, cancelled>>
        BY <1>4 DEF SelectDone
      <3>2. pc' \in [Workers -> {"range", "select", "process", "send",
                                "sendAndReturn", "done"}]
        BY <2>0
      <3>3. verdict' \in [Workers -> Errs]
        BY <2>0
      <3> QED
        BY <3>1, <3>2, <3>3
    <2>2. PoolProgress'
      BY <1>4, <2>0 DEF SelectDone
    <2>3. JobsConserved'
      BY <1>4, PoolUnmoved DEF SelectDone
    <2>4. ResultsClosedLast'
      BY <1>4, <2>0 DEF SelectDone
    <2>5. PoolReasons'
      BY <1>4, <2>0 DEF SelectDone
    <2>6. PoolLate'
      BY <1>4, <2>0 DEF SelectDone
    <2> QED
      BY <2>1, <2>2, <2>3, <2>4, <2>5, <2>6
  <1>5. ASSUME NEW w \in Workers, Process(w) PROVE PoolIInv'
    <2>1. TypeOK'
      BY <1>5 DEF Process
    <2>2. PoolProgress'
      BY <1>5 DEF Process
    <2>3. JobsConserved'
      BY <1>5, PoolUnmoved DEF Process
    <2>4. ResultsClosedLast'
      BY <1>5 DEF Process
    <2>5. PoolReasons'
      BY <1>5 DEF Process
    <2>6. PoolLate'
      BY <1>5 DEF Process
    <2> QED
      BY <2>1, <2>2, <2>3, <2>4, <2>5, <2>6
  <1>6. ASSUME NEW w \in Workers, Send(w) PROVE PoolIInv'
    <2>1. TypeOK'
      BY <1>6 DEF Send
    <2>2. PoolProgress'
      BY <1>6 DEF Send
    <2>3. JobsConserved'
      BY <1>6, SendConserves
    <2>4. ResultsClosedLast'
      BY <1>6 DEF Send
    <2>5. PoolReasons'
      BY <1>6 DEF Send
    <2>6. PoolLate'
      BY <1>6 DEF Send
    <2> QED
      BY <2>1, <2>2, <2>3, <2>4, <2>5, <2>6
  <1>7. ASSUME NEW w \in Workers, Leave(w) PROVE PoolIInv'
    <2>1. TypeOK'
      BY <1>7 DEF Leave
    <2>2. PoolProgress'
      BY <1>7 DEF Leave
    <2>3. JobsConserved'
      BY <1>7, PoolUnmoved DEF Leave
    <2>4. ResultsClosedLast'
      BY <1>7 DEF Leave
    <2>5. PoolReasons'
      BY <1>7 DEF Leave
    <2>6. PoolLate'
      BY <1>7 DEF Leave
    <2> QED
      BY <2>1, <2>2, <2>3, <2>4, <2>5, <2>6
  <1>8. CASE CloseResults
    BY <1>8 DEF CloseResults, AllDone
  <1>9. CASE Collect
    BY <1>9 DEF Collect
  <1>10. CASE Finish
    BY <1>10 DEF Finish
  <1>11. CASE Cancel
    BY <1>11 DEF Cancel
  <1>12. CASE Ended \/ UNCHANGED vars
    <2>1. UNCHANGED vars
      BY <1>12 DEF Ended
    <2> QED
      BY <2>1
  <1> QED
    BY <1>1, <1>2, <1>3, <1>4, <1>5, <1>6, <1>7, <1>8, <1>9, <1>10, <1>11, <1>12
       DEF Next, Work

THEOREM PoolInductive == Spec => []PoolIInv
  BY PoolInitInv, PoolNextInv, PTL DEF Spec

------------------------------------------------------------------------------
(* Type correctness.                                                       *)
THEOREM PoolTypeCorrect == Spec => []TypeOK
  BY PoolInductive, PTL DEF PoolIInv

(* No job is answered twice, and none is dropped by a worker that quits.   *)
THEOREM ConservesJobs == Spec => []JobsConserved
  BY PoolInductive, PTL DEF PoolIInv

(* No worker can send on the closed results channel.                       *)
THEOREM ClosesResultsLast == Spec => []ResultsClosedLast
  BY PoolInductive, PTL DEF PoolIInv

(* A worker takes at most one job after the cancellation.                  *)
THEOREM WrapsUp == Spec => []AtMostOneMoreJob
  <1>1. PoolIInv => AtMostOneMoreJob
    <2> SUFFICES ASSUME PoolIInv, NEW w \in Workers PROVE late[w] <= 1
      BY DEF AtMostOneMoreJob
    <2>1. late[w] = 0 \/ late[w] = 1
      BY DEF PoolIInv, PoolLate
    <2> QED
      BY <2>1
  <1> QED
    BY <1>1, PoolInductive, PTL

(* Without a cancellation the collector has seen every job's result.       *)
THEOREM CompletesUnlessCancelled == Spec => []CompleteUnlessCancelled
  <1>1. PoolIInv => CompleteUnlessCancelled
    <2> SUFFICES ASSUME PoolIInv, finished, ~cancelled
                 PROVE  /\ \A n \in 1..NJobs : \E i \in 1..collected : out[i].job = n
                        /\ \A i \in 1..collected : out[i].err # "ctx"
      BY DEF CompleteUnlessCancelled
    <2>1. collected = Len(out) /\ \A w \in Workers : pc[w] = "done" /\ hand[w] = 0
      BY DEF PoolIInv, PoolProgress, ResultsClosedLast
    <2>2. taken = NJobs
      <3>1. PICK w \in Workers : pc[w] = "done"
        BY <2>1, PoolAssumption
      <3> QED
        BY <3>1 DEF PoolIInv, PoolReasons, PoolProgress
    <2>3. \A n \in 1..NJobs : \E i \in 1..collected : out[i].job = n
      BY <2>1, <2>2, PoolAssumption DEF PoolIInv, JobsConserved
    <2>4. \A i \in 1..collected : out[i].err # "ctx"
      BY <2>1 DEF PoolIInv, PoolReasons
    <2> QED
      BY <2>3, <2>4
  <1> QED
    BY <1>1, PoolInductive, PTL

(* The pool's invariant, all of the above together.                        *)
THEOREM KeepsPoolInv == Spec => []PoolInv
  BY PoolTypeCorrect, ConservesJobs, ClosesResultsLast, WrapsUp,
     CompletesUnlessCancelled, PTL DEF PoolInv

------------------------------------------------------------------------------
(* RunBounded                                                                 *)

TaskPlaces == {"none", "acquire", "run", "release", "finish", "gone"}

BoundedTypeOK ==
    /\ added \in Nat /\ launched \in Nat /\ wg \in Nat /\ sem \in Nat
    /\ inside \in BOOLEAN /\ returned \in BOOLEAN
    /\ doing \in [1..Tasks -> TaskPlaces]
    /\ allErrors \in Seq(1..Tasks)

Owing == {t \in 1..Tasks : t <= added /\ doing[t] # "gone"}

(* Goroutines are launched one by one, each behind its Add, and the two       *)
(* counters count what they are there for.                                    *)
LaunchedInOrder ==
    /\ added \in {launched, launched + 1} /\ added <= Tasks
    /\ \A t \in 1..Tasks : doing[t] = "none" <=> t > launched
    /\ returned => launched = Tasks /\ \A t \in 1..Tasks : doing[t] = "gone"

CountersCount == /\ sem = Cardinality(RB!Running) /\ sem <= MaxConcurrency
                 /\ wg = Cardinality(Owing)

FirstFailure == firstErr = IF allErrors = <<>> THEN 0 ELSE allErrors[1]

BoundedInv == BoundedTypeOK /\ LaunchedInOrder /\ CountersCount /\ FirstFailure

LEMMA TaskSetsFinite == IsFiniteSet(RB!Running) /\ IsFiniteSet(Owing)
  <1>1. IsFiniteSet(1..Tasks)
    BY FS_Interval, ConcurrencyAssumption
  <1>2. RB!Running \in SUBSET (1..Tasks) /\ Owing \in SUBSET (1..Tasks)
    BY DEF RB!Running, Owing
  <1> QED
    BY <1>1, <1>2, FS_Subset

LEMMA BoundedInitInv == RB!Init => BoundedInv
  <1> SUFFICES ASSUME RB!Init PROVE BoundedInv
    OBVIOUS
  <1> USE ConcurrencyAssumption DEF RB!Init
  <1>1. BoundedTypeOK
    <2>1. added \in Nat /\ launched \in Nat /\ wg \in Nat /\ sem \in Nat
      OBVIOUS
    <2>2. inside \in BOOLEAN /\ returned \in BOOLEAN
      OBVIOUS
    <2>3. doing \in [1..Tasks -> TaskPlaces]
      BY DEF TaskPlaces
    <2>4. allErrors \in Seq(1..Tasks)
      OBVIOUS
    <2> QED
      BY <2>1, <2>2, <2>3, <2>4 DEF BoundedTypeOK
  <1>2. LaunchedInOrder /\ FirstFailure
    BY DEF LaunchedInOrder, FirstFailure
  <1>3. RB!Running = {} /\ Owing = {}
    BY DEF RB!Running, Owing
  <1>4. CountersCount
    BY <1>3, FS_EmptySet DEF CountersCount
  <1> QED
    BY <1>1, <1>2, <1>4 DEF BoundedInv

LEMMA BoundedNextInv == BoundedInv /\ [RB!Next]_(RB!vars) => BoundedInv'
  <1> SUFFICES ASSUME BoundedInv, [RB!Next]_(RB!vars) PROVE BoundedInv'
    OBVIOUS
  <1> USE ConcurrencyAssumption DEF BoundedInv
  <1>0. /\ IsFiniteSet(RB!Running) /\ IsFiniteSet(Owing)
        /\ Cardinality(RB!Running) \in Nat /\ Cardinality(Owing) \in Nat
    BY TaskSetsFinite, FS_CardinalityType
  <1>1. CASE RB!Add
    <2>1. /\ added = launched /\ added < Tasks /\ added' = added + 1 /\ wg' = wg + 1
          /\ UNCHANGED <<inside, launched, sem, doing, firstErr, allErrors, returned>>
      BY <1>1 DEF RB!Add
    <2>2. added + 1 \in 1..Tasks /\ doing[added + 1] = "none"
      BY <2>1 DEF BoundedTypeOK, LaunchedInOrder
    <2>3. Owing' = Owing \union {added + 1} /\ added + 1 \notin Owing
      BY <2>1, <2>2 DEF Owing, BoundedTypeOK
    <2>4. Cardinality(Owing') = Cardinality(Owing) + 1
      BY <1>0, <2>3, FS_AddElement
    <2>5. RB!Running' = RB!Running
      BY <2>1 DEF RB!Running
    <2>6. BoundedTypeOK' /\ FirstFailure'
      BY <2>1 DEF BoundedTypeOK, FirstFailure
    <2>7. LaunchedInOrder'
      BY <2>1 DEF LaunchedInOrder, BoundedTypeOK
    <2>8. CountersCount'
      BY <2>1, <2>4, <2>5 DEF CountersCount
    <2> QED
      BY <2>6, <2>7, <2>8
  <1>2. CASE RB!Launch
    <2> DEFINE place == IF inside THEN "acquire" ELSE "run"
    <2>1. /\ launched < added /\ launched' = added /\ (inside \/ sem < MaxConcurrency)
          /\ sem' = IF inside THEN sem ELSE sem + 1
          /\ doing' = [doing EXCEPT ![added] = place]
          /\ UNCHANGED <<inside, added, wg, firstErr, allErrors, returned>>
      BY <1>2 DEF RB!Launch, RB!To
    <2>2. added \in 1..Tasks /\ added = launched + 1 /\ doing[added] = "none"
      BY <2>1 DEF BoundedTypeOK, LaunchedInOrder
    <2>3. place \in {"acquire", "run"} /\ (inside <=> place = "acquire")
      OBVIOUS
    <2> HIDE DEF place
    <2>4. doing'[added] = place /\ \A t \in 1..Tasks : t # added => doing'[t] = doing[t]
      BY <2>1, <2>2 DEF BoundedTypeOK
    <2>5. BoundedTypeOK' /\ FirstFailure'
      <3>1. sem' \in Nat /\ added' \in Nat /\ launched' \in Nat /\ wg' \in Nat
        BY <2>1 DEF BoundedTypeOK
      <3>2. inside' \in BOOLEAN /\ returned' \in BOOLEAN
        BY <2>1 DEF BoundedTypeOK
      <3>3. doing' \in [1..Tasks -> TaskPlaces]
        BY <2>1, <2>3 DEF BoundedTypeOK, TaskPlaces
      <3>4. allErrors' \in Seq(1..Tasks) /\ FirstFailure'
        BY <2>1 DEF BoundedTypeOK, FirstFailure
      <3> QED
        BY <3>1, <3>2, <3>3, <3>4 DEF BoundedTypeOK
    <2>6. LaunchedInOrder'
      BY <2>1, <2>2, <2>3, <2>4 DEF LaunchedInOrder, BoundedTypeOK
    <2>7. Owing' = Owing
      BY <2>1, <2>2, <2>3, <2>4 DEF Owing
    <2>8. CASE inside
      <3>1. RB!Running' = RB!Running
        BY <2>2, <2>3, <2>4, <2>8 DEF RB!Running
      <3> QED
        BY <2>1, <2>5, <2>6, <2>7, <2>8, <3>1 DEF CountersCount
    <2>9. CASE ~inside
      <3>1. RB!Running' = RB!Running \union {added} /\ added \notin RB!Running
        BY <2>2, <2>3, <2>4, <2>9 DEF RB!Running
      <3>2. Cardinality(RB!Running') = Cardinality(RB!Running) + 1
        BY <1>0, <3>1, FS_AddElement
      <3>3. CountersCount'
        BY <1>0, <2>1, <2>7, <2>9, <3>2 DEF CountersCount
      <3> QED
        BY <2>5, <2>6, <3>3
    <2> QED
      BY <2>8, <2>9
  <1>3. ASSUME NEW t \in 1..Tasks, RB!Acquire(t) PROVE BoundedInv'
    <2>1. /\ doing[t] = "acquire" /\ sem < MaxConcurrency /\ sem' = sem + 1
          /\ doing' = [doing EXCEPT ![t] = "run"]
          /\ UNCHANGED <<inside, added, launched, wg, firstErr, allErrors, returned>>
      BY <1>3 DEF RB!Acquire, RB!To
    <2>2. doing'[t] = "run" /\ \A u \in 1..Tasks : u # t => doing'[u] = doing[u]
      BY <2>1 DEF BoundedTypeOK
    <2>3. BoundedTypeOK' /\ FirstFailure'
      BY <2>1 DEF BoundedTypeOK, FirstFailure, TaskPlaces
    <2>4. LaunchedInOrder'
      BY <2>1, <2>2 DEF LaunchedInOrder
    <2>5. Owing' = Owing
      BY <2>1, <2>2 DEF Owing
    <2>6. RB!Running' = RB!Running \union {t} /\ t \notin RB!Running
      BY <2>1, <2>2 DEF RB!Running
    <2>7. Cardinality(RB!Running') = Cardinality(RB!Running) + 1
      BY <1>0, <2>6, FS_AddElement
    <2>8. CountersCount'
      BY <1>0, <2>1, <2>5, <2>7 DEF CountersCount
    <2> QED
      BY <2>3, <2>4, <2>8
  <1>4. ASSUME NEW t \in 1..Tasks, RB!Run(t) PROVE BoundedInv'
    <2>1. /\ doing[t] = "run" /\ doing' = [doing EXCEPT ![t] = "release"]
          /\ RB!Record(t) \/ UNCHANGED <<firstErr, allErrors>>
          /\ UNCHANGED <<inside, added, launched, wg, sem, returned>>
      BY <1>4 DEF RB!Run, RB!To
    <2>2. doing'[t] = "release" /\ \A u \in 1..Tasks : u # t => doing'[u] = doing[u]
      BY <2>1 DEF BoundedTypeOK
    <2>3. allErrors' \in Seq(1..Tasks) /\ FirstFailure'
      <3>1. CASE RB!Record(t)
        <4>1. allErrors' = Append(allErrors, t) /\ firstErr' = IF firstErr = 0 THEN t ELSE firstErr
          BY <3>1 DEF RB!Record
        <4>2. allErrors' \in Seq(1..Tasks) /\ allErrors' # <<>>
          BY <4>1 DEF BoundedTypeOK
        <4>3. CASE allErrors = <<>>
          BY <4>1, <4>2, <4>3 DEF FirstFailure
        <4>4. CASE allErrors # <<>>
          BY <4>1, <4>2, <4>4 DEF FirstFailure, BoundedTypeOK
        <4> QED
          BY <4>2, <4>3, <4>4
      <3>2. CASE UNCHANGED <<firstErr, allErrors>>
        BY <3>2 DEF BoundedTypeOK, FirstFailure
      <3> QED
        BY <2>1, <3>1, <3>2
    <2>4. BoundedTypeOK'
      BY <2>1, <2>3 DEF BoundedTypeOK, TaskPlaces
    <2>5. LaunchedInOrder'
      BY <2>1, <2>2 DEF LaunchedInOrder
    <2>6. Owing' = Owing /\ RB!Running' = RB!Running
      BY <2>1, <2>2 DEF Owing, RB!Running
    <2>7. CountersCount'
      BY <2>1, <2>6 DEF CountersCount
    <2> QED
      BY <2>3, <2>4, <2>5, <2>7
  <1>5. ASSUME NEW t \in 1..Tasks, RB!Release(t) PROVE BoundedInv'
    <2>1. /\ doing[t] = "release" /\ sem > 0 /\ sem' = sem - 1
          /\ doing' = [doing EXCEPT ![t] = "finish"]
          /\ UNCHANGED <<inside, added, launched, wg, firstErr, allErrors, returned>>
      BY <1>5 DEF RB!Release, RB!To
    <2>2. doing'[t] = "finish" /\ \A u \in 1..Tasks : u # t => doing'[u] = doing[u]
      BY <2>1 DEF BoundedTypeOK
    <2>3. BoundedTypeOK' /\ FirstFailure'
      BY <2>1 DEF BoundedTypeOK, FirstFailure, TaskPlaces
    <2>4. LaunchedInOrder'
      BY <2>1, <2>2 DEF LaunchedInOrder
    <2>5. Owing' = Owing
      BY <2>1, <2>2 DEF Owing
    <2>6. RB!Running' = RB!Running \ {t} /\ t \in RB!Running
      BY <2>1, <2>2 DEF RB!Running
    <2>7. Cardinality(RB!Running') = Cardinality(RB!Running) - 1
      BY <1>0, <2>6, FS_RemoveElement
    <2>8. CountersCount'
      BY <1>0, <2>1, <2>5, <2>7 DEF CountersCount
    <2> QED
      BY <2>3, <2>4, <2>8
  <1>6. ASSUME NEW t \in 1..Tasks, RB!Done(t) PROVE BoundedInv'
    <2>1. /\ doing[t] = "finish" /\ wg' = wg - 1
          /\ doing' = [doing EXCEPT ![t] = "gone"]
          /\ UNCHANGED <<inside, added, launched, sem, firstErr, allErrors, returned>>
      BY <1>6 DEF RB!Done, RB!To
    <2>2. doing'[t] = "gone" /\ \A u \in 1..Tasks : u # t => doing'[u] = doing[u]
      BY <2>1 DEF BoundedTypeOK
    <2>3. t <= added
      BY <2>1 DEF LaunchedInOrder, BoundedTypeOK
    <2>4. Owing' = Owing \ {t} /\ t \in Owing
      BY <2>1, <2>2, <2>3 DEF Owing
    <2>5. Cardinality(Owing') = Cardinality(Owing) - 1 /\ Cardinality(Owing') \in Nat
      BY <1>0, <2>4, FS_RemoveElement, FS_CardinalityType
    <2>6. RB!Running' = RB!Running
      BY <2>1, <2>2 DEF RB!Running
    <2>7. CountersCount' /\ wg' \in Nat
      BY <2>1, <2>5, <2>6 DEF CountersCount
    <2>8. BoundedTypeOK' /\ FirstFailure'
      BY <2>1, <2>7 DEF BoundedTypeOK, FirstFailure, TaskPlaces
    <2>9. LaunchedInOrder'
      BY <2>1, <2>2 DEF LaunchedInOrder
    <2> QED
      BY <2>7, <2>8, <2>9
  <1>7. CASE RB!Wait
    <2>1. /\ launched = Tasks /\ wg = 0 /\ returned' = TRUE
          /\ UNCHANGED <<inside, added, launched, wg, sem, doing, firstErr, allErrors>>
      BY <1>7 DEF RB!Wait
    <2>2. Owing = {}
      BY <1>0, <2>1, FS_EmptySet DEF CountersCount
    <2>3. \A t \in 1..Tasks : doing[t] = "gone"
      BY <2>1, <2>2 DEF Owing, LaunchedInOrder, BoundedTypeOK
    <2>4. Owing' = Owing /\ RB!Running' = RB!Running
      BY <2>1 DEF Owing, RB!Running
    <2> QED
      BY <2>1, <2>3, <2>4 DEF BoundedTypeOK, LaunchedInOrder, CountersCount, FirstFailure
  <1>8. CASE UNCHANGED RB!vars
    <2>1. Owing' = Owing /\ RB!Running' = RB!Running
      BY <1>8 DEF Owing, RB!Running, RB!vars
    <2> QED
      BY <1>8, <2>1 DEF RB!vars, BoundedTypeOK, LaunchedInOrder, CountersCount, FirstFailure
  <1> QED
    BY <1>1, <1>2, <1>3, <1>4, <1>5, <1>6, <1>7, <1>8 DEF RB!Next

(* Any number of tasks, wherever they acquire the semaphore: never more at    *)
(* once than its capacity, the wait over only behind the last of them, and    *)
(* the error kept the first one.                                              *)
THEOREM TasksBoundedAndWaitedFor == RB!Spec => []BoundedAndWaitedFor
  <1>1. \A S : RB!Cardinality(S) = Cardinality(S)
    BY DEF RB!Cardinality, Cardinality
  <1>2. BoundedInv => BoundedAndWaitedFor
    BY <1>1 DEF BoundedInv, LaunchedInOrder, CountersCount, FirstFailure,
                BoundedAndWaitedFor, RB!BoundedAndWaitedFor
  <1> QED
    BY <1>2, BoundedInitInv, BoundedNextInv, PTL DEF RB!Spec

------------------------------------------------------------------------------
(* Pipeline                                                                   *)

(* Where a worker is, what it holds and which channels are closed go          *)
(* together; the generator stops early only for the context.                  *)
CrewInPlace == \A w \in PL!Crew :
    /\ at[w] \in {"range", "done"} <=> holds[w] = 0
    /\ at[w] = "fail" => ctxDone
    /\ PL!StageOf(w) \in shut => at[w] = "done"
    /\ at[w] = "done" /\ ~ctxDone => PL!StageOf(w) - 1 \in shut

StopsInOrder == /\ 0 \in shut /\ ~ctxDone => generated = Count
                /\ PL!AllUploaded

CrewInv == PL!TypeOK /\ PL!EveryImageAccountedFor /\ CrewInPlace /\ StopsInOrder

LEMMA StagesAreManned ==
    /\ Count \in Nat
    /\ \A w \in PL!Crew : PL!StageOf(w) \in 1..3
    /\ \A s \in 1..3 : \E w \in PL!Crew : PL!StageOf(w) = s
  BY ConcurrencyAssumption DEF PL!CrewAssumption, PL!Crew, PL!StageOf

(* Steps of the accounts: nothing changes hands, a new image is taken up, an  *)
(* image is passed on, or let go of with one trace of it.                     *)
AllKept == UNCHANGED <<generated, holds, uploaded, failed, dropped>>

TakesUp(w) == /\ generated < Count /\ generated' = generated + 1 /\ holds[w] = 0
              /\ holds' = [holds EXCEPT ![w] = generated + 1]
              /\ UNCHANGED <<uploaded, failed, dropped>>

PassesOn(w, v) == /\ v # w /\ holds[v] = 0
                /\ holds' = [holds EXCEPT ![w] = 0, ![v] = holds[w]]
                /\ UNCHANGED <<generated, uploaded, failed, dropped>>

LetsGo(w) ==
    /\ holds[w] # 0 /\ holds' = [holds EXCEPT ![w] = 0] /\ generated' = generated
    /\ \/ uploaded' = uploaded \union {holds[w]} /\ UNCHANGED <<failed, dropped>>
       \/ ctxDone /\ failed' = failed \union {holds[w]} /\ UNCHANGED <<uploaded, dropped>>
       \/ ctxDone /\ dropped' = dropped \union {holds[w]} /\ UNCHANGED <<uploaded, failed>>

LEMMA AccountsStep ==
  ASSUME PL!TypeOK, PL!EveryImageAccountedFor, ctxDone => ctxDone',
         \/ AllKept
         \/ \E w \in PL!Crew : TakesUp(w) \/ LetsGo(w)
         \/ \E w, v \in PL!Crew : PassesOn(w, v)
  PROVE  PL!EveryImageAccountedFor'
  <1>0. Count \in Nat /\ generated \in 0..Count /\ holds \in [PL!Crew -> 0..Count]
    BY StagesAreManned DEF PL!TypeOK
  <1>1. CASE AllKept
    BY <1>1 DEF AllKept, PL!EveryImageAccountedFor, PL!InHand
  <1>2. ASSUME NEW w \in PL!Crew, TakesUp(w) PROVE PL!EveryImageAccountedFor'
    <2>1. /\ generated' = generated + 1 /\ generated + 1 \in 1..Count
          /\ UNCHANGED <<uploaded, failed, dropped>>
      BY <1>0, <1>2 DEF TakesUp
    <2>2. holds'[w] = generated + 1 /\ \A v \in PL!Crew : v # w => holds'[v] = holds[v]
      BY <1>0, <1>2 DEF TakesUp
    <2>3. /\ generated + 1 \notin uploaded \union failed \union dropped
          /\ \A v \in PL!Crew : holds[v] # generated + 1
      BY <1>0, <2>1 DEF PL!EveryImageAccountedFor, PL!InHand, PL!Images
    <2>4. \A i \in PL!Images : PL!InHand(i)' <=> PL!InHand(i) \/ i = generated + 1
      BY <1>2, <2>2 DEF PL!InHand, PL!Images, TakesUp
    <2>5. \A i \in PL!Images : i <= generated' <=> i <= generated \/ i = generated + 1
      BY <1>0, <2>1 DEF PL!Images
    <2>6. \A i \in PL!Images : i <= generated'
            <=> PL!InHand(i)' \/ i \in uploaded' \/ i \in failed' \/ i \in dropped'
      BY <2>1, <2>4, <2>5 DEF PL!EveryImageAccountedFor
    <2>7. \A v \in PL!Crew : holds'[v] \notin uploaded' \union failed' \union dropped'
      BY <2>1, <2>2, <2>3 DEF PL!EveryImageAccountedFor
    <2>8. \A u, v \in PL!Crew : u # v /\ holds'[u] = holds'[v] => holds'[u] = 0
      BY <2>2, <2>3 DEF PL!EveryImageAccountedFor
    <2> QED
      BY <2>1, <2>6, <2>7, <2>8 DEF PL!EveryImageAccountedFor, PL!Images, PL!InHand
  <1>3. ASSUME NEW w \in PL!Crew, LetsGo(w) PROVE PL!EveryImageAccountedFor'
    <2>1. holds'[w] = 0 /\ \A v \in PL!Crew : v # w => holds'[v] = holds[v]
      BY <1>0, <1>3 DEF LetsGo
    <2>2. holds[w] \in PL!Images /\ PL!InHand(holds[w])
      BY <1>0, <1>3 DEF LetsGo, PL!Images, PL!InHand
    <2>3. \A i \in PL!Images : PL!InHand(i)' <=> PL!InHand(i) /\ i # holds[w]
      BY <1>0, <2>1, <2>2 DEF PL!InHand, PL!Images, PL!EveryImageAccountedFor
    <2>4. \A i : i \in uploaded' \/ i \in failed' \/ i \in dropped'
            <=> i \in uploaded \/ i \in failed \/ i \in dropped \/ i = holds[w]
      BY <1>3 DEF LetsGo
    <2>5. \A i \in PL!Images : i <= generated'
            <=> PL!InHand(i)' \/ i \in uploaded' \/ i \in failed' \/ i \in dropped'
      BY <1>3, <2>2, <2>3, <2>4 DEF LetsGo, PL!EveryImageAccountedFor
    <2>6. \A v \in PL!Crew : holds'[v] \notin uploaded' \union failed' \union dropped'
      <3>1. 0 \notin uploaded \union failed \union dropped
        BY <1>0 DEF PL!TypeOK, PL!Images
      <3> QED
        BY <1>3, <2>1, <2>4, <3>1 DEF LetsGo, PL!EveryImageAccountedFor
    <2>7. \A u, v \in PL!Crew : u # v /\ holds'[u] = holds'[v] => holds'[u] = 0
      BY <2>1 DEF PL!EveryImageAccountedFor
    <2>8. /\ uploaded' \cap failed' = {} /\ uploaded' \cap dropped' = {}
          /\ failed' \cap dropped' = {}
      BY <1>3 DEF LetsGo, PL!EveryImageAccountedFor
    <2>9. ~ctxDone' => failed' = {} /\ dropped' = {}
      BY <1>3 DEF LetsGo, PL!EveryImageAccountedFor
    <2> QED
      BY <2>5, <2>6, <2>7, <2>8, <2>9 DEF PL!EveryImageAccountedFor, PL!Images, PL!InHand
  <1>4. ASSUME NEW w \in PL!Crew, NEW v \in PL!Crew, PassesOn(w, v)
        PROVE  PL!EveryImageAccountedFor'
    <2>1. /\ holds'[w] = 0 /\ holds'[v] = holds[w] /\ holds[v] = 0 /\ v # w
          /\ \A u \in PL!Crew : u # w /\ u # v => holds'[u] = holds[u]
          /\ UNCHANGED <<generated, uploaded, failed, dropped>>
      BY <1>0, <1>4 DEF PassesOn
    <2>2. \A i \in PL!Images : PL!InHand(i)' <=> PL!InHand(i)
      BY <1>0, <2>1 DEF PL!InHand, PL!Images
    <2>3. \A u \in PL!Crew : holds'[u] \notin uploaded \union failed \union dropped
      BY <2>1 DEF PL!EveryImageAccountedFor
    <2>4. \A x, y \in PL!Crew : x # y /\ holds'[x] = holds'[y] => holds'[x] = 0
      BY <2>1 DEF PL!EveryImageAccountedFor
    <2> QED
      BY <2>1, <2>2, <2>3, <2>4 DEF PL!EveryImageAccountedFor, PL!Images, PL!InHand
  <1> QED
    BY <1>1, <1>2, <1>3, <1>4

LEMMA LetGoTypes ==
  ASSUME PL!TypeOK, NEW w \in PL!Crew, LetsGo(w)
  PROVE  /\ generated' \in 0..Count /\ holds' \in [PL!Crew -> 0..Count]
         /\ uploaded' \subseteq PL!Images /\ failed' \subseteq PL!Images
         /\ dropped' \subseteq PL!Images
  <1>1. /\ Count \in Nat /\ generated \in 0..Count
        /\ holds \in [PL!Crew -> 0..Count] /\ holds[w] # 0
    BY StagesAreManned DEF PL!TypeOK, LetsGo
  <1>2. holds[w] \in PL!Images
    <2>1. holds[w] \in 0..Count
      BY <1>1
    <2> QED
      BY <1>1, <2>1 DEF PL!Images
  <1> QED
    BY <1>1, <1>2 DEF PL!TypeOK, LetsGo

LEMMA PipelineInitInv == PL!Init => CrewInv
  <1> SUFFICES ASSUME PL!Init PROVE CrewInv
    OBVIOUS
  <1> USE StagesAreManned DEF PL!Init
  <1>1. PL!TypeOK
    <2>1. generated \in 0..Count /\ holds \in [PL!Crew -> 0..Count]
      OBVIOUS
    <2>2. at \in [PL!Crew -> {"range", "look", "send", "fail", "done"}]
      OBVIOUS
    <2>3. collecting \in BOOLEAN /\ ctxDone \in BOOLEAN
      OBVIOUS
    <2> QED
      BY <2>1, <2>2, <2>3 DEF PL!TypeOK
  <1>2. PL!EveryImageAccountedFor
    BY DEF PL!EveryImageAccountedFor, PL!InHand, PL!Images
  <1>3. CrewInPlace /\ StopsInOrder
    BY DEF CrewInPlace, StopsInOrder, PL!AllUploaded
  <1> QED
    BY <1>1, <1>2, <1>3 DEF CrewInv

LEMMA PipelineNextInv == CrewInv /\ [PL!Next]_(PL!vars) => CrewInv'
  <1> SUFFICES ASSUME CrewInv, [PL!Next]_(PL!vars) PROVE CrewInv'
    OBVIOUS
  <1> USE StagesAreManned DEF CrewInv
  <1>0. /\ at \in [PL!Crew -> {"range", "look", "send", "fail", "done"}]
        /\ holds \in [PL!Crew -> 0..Count] /\ generated \in 0..Count
        /\ shut \subseteq 0..3
    BY DEF PL!TypeOK
  <1>1. ASSUME NEW w \in PL!Crew, PL!Generate(w) PROVE CrewInv'
    <2>1. /\ PL!StageOf(w) = 1 /\ at[w] = "range" /\ holds[w] = 0
          /\ generated < Count /\ generated' = generated + 1
          /\ at' = [at EXCEPT ![w] = "look"] /\ holds' = [holds EXCEPT ![w] = generated + 1]
          /\ 0 \notin shut
          /\ UNCHANGED <<shut, uploaded, failed, collecting, dropped, ctxDone>>
      BY <1>1 DEF PL!Generate, PL!Move, PL!results, CrewInPlace
    <2>2. PL!EveryImageAccountedFor'
      BY <2>1, AccountsStep DEF TakesUp
    <2>3. PL!TypeOK'
      BY <1>0, <2>1 DEF PL!TypeOK
    <2>4. CrewInPlace'
      BY <1>0, <2>1 DEF CrewInPlace
    <2>5. StopsInOrder'
      BY <2>1 DEF StopsInOrder, PL!AllUploaded
    <2> QED
      BY <2>2, <2>3, <2>4, <2>5
  <1>2. ASSUME NEW w \in PL!Crew, PL!Look(w) PROVE CrewInv'
    <2>1. /\ at[w] = "look" /\ holds[w] # 0
          /\ UNCHANGED <<generated, shut, uploaded, failed, collecting, ctxDone>>
      BY <1>2 DEF PL!Look, PL!results, CrewInPlace
    <2>2. StopsInOrder'
      BY <2>1 DEF StopsInOrder, PL!AllUploaded, PL!Images
    <2>3. CASE /\ \/ ~ctxDone /\ PL!Move(w, "send", holds[w])
                  \/ ctxDone /\ PL!Move(w, "fail", holds[w])
               /\ UNCHANGED dropped
      <3>1. holds' = holds /\ dropped' = dropped
        BY <1>0, <2>3 DEF PL!Move
      <3>2. PL!EveryImageAccountedFor'
        BY <2>1, <3>1, AccountsStep DEF AllKept
      <3>3. PL!TypeOK'
        BY <1>0, <2>1, <2>3, <3>1 DEF PL!TypeOK, PL!Move
      <3>4. CrewInPlace'
        BY <1>0, <2>1, <2>3, <3>1 DEF CrewInPlace, PL!Move
      <3> QED
        BY <2>2, <3>2, <3>3, <3>4
    <2>4. CASE /\ ctxDone /\ PL!Move(w, "done", 0)
               /\ dropped' = dropped \union {holds[w]}
      <3>1. LetsGo(w)
        BY <2>1, <2>4 DEF PL!Move, LetsGo
      <3>2. PL!EveryImageAccountedFor'
        BY <2>1, <3>1, AccountsStep
      <3>3. PL!TypeOK'
        BY <1>0, <2>1, <2>4, <3>1, LetGoTypes DEF PL!TypeOK, PL!Move
      <3>4. CrewInPlace'
        BY <1>0, <2>1, <2>4 DEF CrewInPlace, PL!Move
      <3> QED
        BY <2>2, <3>2, <3>3, <3>4
    <2> QED
      BY <1>2, <2>3, <2>4 DEF PL!Look
  <1>3. ASSUME NEW w \in PL!Crew, NEW v \in PL!Crew, PL!PassOn(w, v) PROVE CrewInv'
    <2>1. /\ at[w] = "send" /\ at[v] = "range" /\ v # w /\ holds[v] = 0 /\ holds[w] # 0
          /\ at' = [at EXCEPT ![w] = "range", ![v] = "look"]
          /\ holds' = [holds EXCEPT ![w] = 0, ![v] = holds[w]]
          /\ UNCHANGED <<generated, shut, uploaded, failed, collecting, dropped, ctxDone>>
      BY <1>3 DEF PL!PassOn, PL!results, CrewInPlace
    <2>2. PL!EveryImageAccountedFor'
      BY <2>1, AccountsStep DEF PassesOn
    <2>3. PL!TypeOK'
      BY <1>0, <2>1 DEF PL!TypeOK
    <2>4. CrewInPlace'
      BY <1>0, <2>1 DEF CrewInPlace
    <2>5. StopsInOrder'
      BY <2>1 DEF StopsInOrder, PL!AllUploaded, PL!Images
    <2> QED
      BY <2>2, <2>3, <2>4, <2>5
  <1>4. ASSUME NEW w \in PL!Crew, PL!GiveUp(w) PROVE CrewInv'
    <2>1. /\ at[w] = "send" /\ holds[w] # 0 /\ ctxDone
          /\ at' = [at EXCEPT ![w] = "done"] /\ holds' = [holds EXCEPT ![w] = 0]
          /\ dropped' = dropped \union {holds[w]}
          /\ UNCHANGED <<generated, shut, uploaded, failed, collecting, ctxDone>>
      BY <1>4 DEF PL!GiveUp, PL!Move, PL!results, CrewInPlace
    <2>2. LetsGo(w) /\ PL!EveryImageAccountedFor'
      BY <2>1, AccountsStep DEF LetsGo
    <2>3. PL!TypeOK'
      BY <1>0, <2>1, <2>2, LetGoTypes DEF PL!TypeOK
    <2>4. CrewInPlace'
      BY <1>0, <2>1 DEF CrewInPlace
    <2>5. StopsInOrder'
      BY <2>1 DEF StopsInOrder, PL!AllUploaded, PL!Images
    <2> QED
      BY <2>2, <2>3, <2>4, <2>5
  <1>5. ASSUME NEW w \in PL!Crew, PL!Collect(w) PROVE CrewInv'
    <2>1. /\ collecting /\ holds[w] # 0 /\ holds' = [holds EXCEPT ![w] = 0]
          /\ UNCHANGED <<generated, shut, collecting, dropped, ctxDone>>
      BY <1>5 DEF PL!Collect, PL!Move, CrewInPlace
    <2>2. \/ /\ at[w] = "send" /\ at' = [at EXCEPT ![w] = "range"]
             /\ uploaded' = uploaded \union {holds[w]} /\ failed' = failed
          \/ /\ at[w] = "fail" /\ ctxDone /\ at' = [at EXCEPT ![w] = "done"]
             /\ failed' = failed \union {holds[w]} /\ uploaded' = uploaded
      BY <1>5 DEF PL!Collect, PL!Move, CrewInPlace
    <2>3. LetsGo(w)
      BY <2>1, <2>2 DEF LetsGo
    <2>4. PL!EveryImageAccountedFor'
      BY <2>1, <2>3, AccountsStep
    <2>5. PL!TypeOK'
      BY <1>0, <2>1, <2>2, <2>3, LetGoTypes DEF PL!TypeOK
    <2>6. CrewInPlace'
      BY <1>0, <2>1, <2>2 DEF CrewInPlace
    <2>7. StopsInOrder'
      BY <2>1 DEF StopsInOrder, PL!AllUploaded
    <2> QED
      BY <2>4, <2>5, <2>6, <2>7
  <1>6. ASSUME NEW w \in PL!Crew, PL!RangeEnds(w) PROVE CrewInv'
    <2>1. /\ at[w] = "range" /\ PL!StageOf(w) - 1 \in shut
          /\ at' = [at EXCEPT ![w] = "done"] /\ holds' = holds
          /\ UNCHANGED <<generated, shut, uploaded, failed, collecting, dropped, ctxDone>>
      <3>1. holds[w] = 0
        BY <1>6 DEF PL!RangeEnds, CrewInPlace
      <3> QED
        BY <1>0, <1>6, <3>1 DEF PL!RangeEnds, PL!Move, PL!results
    <2>2. PL!EveryImageAccountedFor'
      BY <2>1, AccountsStep DEF AllKept
    <2>3. PL!TypeOK' /\ CrewInPlace'
      BY <1>0, <2>1 DEF PL!TypeOK, CrewInPlace
    <2>4. StopsInOrder'
      BY <2>1 DEF StopsInOrder, PL!AllUploaded, PL!Images
    <2> QED
      BY <2>2, <2>3, <2>4
  <1>7. ASSUME NEW s \in 1..3, PL!Shut(s) PROVE CrewInv'
    <2>1. /\ PL!AllDone(s) /\ shut' = shut \union {s}
          /\ UNCHANGED <<generated, at, holds, uploaded, failed, collecting, dropped, ctxDone>>
      BY <1>7 DEF PL!Shut, PL!results, PL!crew
    <2>2. PL!EveryImageAccountedFor'
      BY <2>1, AccountsStep DEF AllKept
    <2>3. PL!TypeOK'
      BY <1>0, <2>1 DEF PL!TypeOK
    <2>4. CrewInPlace'
      BY <2>1 DEF CrewInPlace, PL!AllDone
    <2>5. StopsInOrder'
      BY <2>1 DEF StopsInOrder, PL!AllUploaded, PL!Images
    <2> QED
      BY <2>2, <2>3, <2>4, <2>5
  <1>8. CASE PL!GeneratorReturns
    <2>1. /\ generated = Count \/ ctxDone
          /\ shut' = shut \union {0}
          /\ UNCHANGED <<generated, at, holds, uploaded, failed, collecting, dropped, ctxDone>>
      BY <1>8 DEF PL!GeneratorReturns, PL!results, PL!crew
    <2>2. PL!EveryImageAccountedFor'
      BY <2>1, AccountsStep DEF AllKept
    <2>3. PL!TypeOK'
      BY <1>0, <2>1 DEF PL!TypeOK
    <2>4. CrewInPlace'
      BY <2>1 DEF CrewInPlace
    <2>5. StopsInOrder'
      BY <2>1 DEF StopsInOrder, PL!AllUploaded, PL!Images
    <2> QED
      BY <2>2, <2>3, <2>4, <2>5
  <1>9. CASE PL!MainReturns
    <2>1. /\ 3 \in shut /\ collecting' = FALSE
          /\ UNCHANGED <<generated, shut, at, holds, uploaded, failed, dropped, ctxDone>>
      BY <1>9 DEF PL!MainReturns, PL!crew
    <2>2. PL!EveryImageAccountedFor'
      BY <2>1, AccountsStep DEF AllKept
    <2>3. PL!TypeOK' /\ CrewInPlace'
      BY <2>1 DEF PL!TypeOK, CrewInPlace
    <2>4. ASSUME ~ctxDone PROVE uploaded = PL!Images
      <3>1. 2 \in shut
        BY <2>1, <2>4 DEF CrewInPlace
      <3>2. 1 \in shut
        BY <2>4, <3>1 DEF CrewInPlace
      <3>3. 0 \in shut
        BY <2>4, <3>2 DEF CrewInPlace
      <3>4. generated = Count /\ failed = {} /\ dropped = {}
        BY <2>4, <3>3 DEF StopsInOrder, PL!EveryImageAccountedFor
      <3>5. \A w \in PL!Crew : holds[w] = 0
        BY <2>1, <3>1, <3>2 DEF CrewInPlace
      <3>6. \A i \in PL!Images : i \in uploaded
        BY <3>4, <3>5 DEF PL!EveryImageAccountedFor, PL!InHand, PL!Images
      <3> QED
        BY <3>6 DEF PL!TypeOK
    <2>5. StopsInOrder'
      BY <2>1, <2>4 DEF StopsInOrder, PL!AllUploaded, PL!Images
    <2> QED
      BY <2>2, <2>3, <2>5
  <1>10. CASE PL!Expire
    <2>1. /\ collecting /\ ctxDone' = TRUE
          /\ UNCHANGED <<generated, shut, at, holds, uploaded, failed, dropped, collecting>>
      BY <1>10 DEF PL!Expire, PL!results, PL!crew
    <2>2. PL!EveryImageAccountedFor'
      BY <2>1, AccountsStep DEF AllKept
    <2>3. PL!TypeOK' /\ CrewInPlace'
      BY <2>1 DEF PL!TypeOK, CrewInPlace
    <2>4. StopsInOrder'
      BY <2>1 DEF StopsInOrder, PL!AllUploaded
    <2> QED
      BY <2>2, <2>3, <2>4
  <1>11. CASE UNCHANGED PL!vars
    <2>1. UNCHANGED <<generated, shut, at, holds, uploaded, failed, dropped, collecting, ctxDone>>
      BY <1>11 DEF PL!vars, PL!crew, PL!results
    <2>2. PL!EveryImageAccountedFor'
      BY <2>1, AccountsStep DEF AllKept
    <2> QED
      BY <2>1, <2>2 DEF PL!TypeOK, CrewInPlace, StopsInOrder, PL!AllUploaded, PL!Images
  <1> QED
    BY <1>1, <1>2, <1>3, <1>4, <1>5, <1>6, <1>7, <1>8, <1>9, <1>10, <1>11
    DEF PL!Next, PL!Work

(* Any crew, any number of images, the deadline at any moment: every image    *)
(* is in one worker's hands, uploaded, failed or dropped, none twice, none    *)
(* lost without the deadline; nobody sends on a closed channel, and a main    *)
(* that returns in time has uploaded them all.                                *)
THEOREM PipelineLosesNothing == PL!Spec => []PipelineAccounts
  <1>1. CrewInv => PipelineAccounts
    <2> SUFFICES ASSUME CrewInv PROVE PL!NoSendOnShut
      BY DEF CrewInv, StopsInOrder, PipelineAccounts, PL!PipelineInv
    <2> QED
      BY DEF CrewInv, CrewInPlace, PL!NoSendOnShut, PL!TypeOK
  <1> QED
    BY <1>1, PipelineInitInv, PipelineNextInv, PTL DEF PL!Spec

------------------------------------------------------------------------------
(* SharedState                                                                *)

Spots == {"start", "write", "read", "unlock", "first", "second", "init", "end"}

SharedTypeOK ==
    /\ stage \in 1..6 /\ spot \in [Routines -> Spots] /\ local \in [Routines -> Nat]
    /\ plain \in Nat /\ safe \in Nat /\ atomic \in Nat
    /\ setting \in [1..2 -> 0..1] /\ got \in [Routines -> [1..2 -> 0..1]]
    /\ \A r \in Routines : (stage = 1 => spot[r] \in {"start", "write", "end"})
                           /\ (stage = 6 => spot[r] = "start")

At(spots) == {r \in Routines : spot[r] \in spots}

Arrived == Cardinality(At({"end"}))

(* The increments of the race: whoever writes has read at most as many as     *)
(* have ended, and whoever has ended has left at least one.                   *)
Racing ==
    /\ stage > 1 => plain \in 1..SH!N
    /\ stage = 1 => /\ plain <= Arrived
                    /\ \A r \in At({"write"}) : local[r] <= Arrived
                    /\ Arrived > 0 => plain > 0

(* One goroutine at a time between Lock and Unlock, and its read is current.  *)
Locking ==
    /\ stage < 2 => safe = 0
    /\ stage > 2 => safe = SH!N
    /\ stage # 2 => mu = {}
    /\ stage = 2 => /\ safe = Cardinality(At({"unlock", "end"}))
                    /\ mu = At({"read", "write", "unlock"})
                    /\ \A r, q \in mu : r = q
                    /\ \A r \in At({"write"}) : local[r] = safe

Inside == At({"first", "second", "unlock"})

(* The two words agree whenever the writer is not between them, and readers   *)
(* are never inside with it.                                                  *)
Configuring ==
    /\ stage < 3 => readers = {} /\ ~writing /\ setting[1] = setting[2]
    /\ Writer \in Routines => got[Writer][1] = got[Writer][2]
    /\ stage = 3 =>
          /\ readers = Inside \ {Writer}
          /\ writing <=> Writer \in Inside
          /\ writing => readers = {}
          /\ Writer \notin At({"second"}) => setting[1] = setting[2]
          /\ Writer \in At({"second"}) => setting[1] = 1
          /\ \A r \in At({"second"}) \ {Writer} : got[r][1] = setting[1]
          /\ \A r \in At({"unlock", "end"}) : got[r][1] = got[r][2]

Initialising == /\ stage < 4 => once = "new"
                /\ stage = 4 /\ At({"end"}) # {} => once = "done"

Adding == /\ stage < 5 => atomic = 0
          /\ stage = 5 => atomic = Arrived
          /\ stage > 5 => atomic = SH!N

SharedInv == /\ SharedTypeOK /\ Racing /\ Locking /\ Configuring
             /\ Initialising /\ Adding

(* The steps of each section.                                                 *)
Racer(r) == SH!RaceRead(r) \/ SH!RaceWrite(r)
Locker(r) == SH!Lock(r) \/ SH!SafeRead(r) \/ SH!SafeWrite(r) \/ SH!Unlock(r)
Configurer(r) == \/ SH!RLock(r) \/ SH!RUnlock(r) \/ SH!WLock(r) \/ SH!WUnlock(r)
                 \/ \E word \in 1..2 : SH!Get(r, word) \/ SH!Set(r, word)
Initialiser(r) == SH!OnceBegins(r) \/ SH!InitDB(r) \/ SH!OnceSkips(r)

LEMMA SharedSteps ==
  ASSUME SH!Next
  PROVE  SH!NextSection \/ \E r \in Routines :
            \/ Racer(r) \/ Locker(r) \/ Configurer(r) \/ Initialiser(r) \/ SH!AddInt64(r)
  BY DEF SH!Next, Racer, Locker, Configurer, Initialiser

LEMMA SectionsApart ==
  ASSUME NEW r \in Routines
  PROVE  /\ Racer(r) => /\ stage = 1
               /\ UNCHANGED <<stage, safe, atomic, mu, readers, writing, setting, got, once>>
         /\ Locker(r) => /\ stage = 2
               /\ UNCHANGED <<stage, plain, atomic, readers, writing, setting, got, once>>
         /\ Configurer(r) => /\ stage = 3
               /\ UNCHANGED <<stage, local, plain, safe, atomic, mu, once>>
         /\ Initialiser(r) => /\ stage = 4
               /\ UNCHANGED <<stage, local, plain, safe, atomic, mu, readers, writing,
                              setting, got>>
         /\ SH!AddInt64(r) => /\ stage = 5
               /\ UNCHANGED <<stage, local, plain, safe, mu, readers, writing, setting,
                              got, once>>
  <1> USE DEF SH!In, SH!To, SH!counters, SH!config
  <1>1. Racer(r) => /\ stage = 1
               /\ UNCHANGED <<stage, safe, atomic, mu, readers, writing, setting, got, once>>
    BY DEF Racer, SH!RaceRead, SH!RaceWrite
  <1>2. Locker(r) => /\ stage = 2
               /\ UNCHANGED <<stage, plain, atomic, readers, writing, setting, got, once>>
    BY DEF Locker, SH!Lock, SH!SafeRead, SH!SafeWrite, SH!Unlock
  <1>3. Configurer(r) => /\ stage = 3
               /\ UNCHANGED <<stage, local, plain, safe, atomic, mu, once>>
    BY DEF Configurer, SH!RLock, SH!RUnlock, SH!WLock, SH!WUnlock, SH!Get, SH!Set
  <1>4. Initialiser(r) => /\ stage = 4
               /\ UNCHANGED <<stage, local, plain, safe, atomic, mu, readers, writing,
                              setting, got>>
    BY DEF Initialiser, SH!OnceBegins, SH!InitDB, SH!OnceSkips
  <1>5. SH!AddInt64(r) => /\ stage = 5
               /\ UNCHANGED <<stage, local, plain, safe, mu, readers, writing, setting,
                              got, once>>
    BY DEF SH!AddInt64
  <1> QED
    BY <1>1, <1>2, <1>3, <1>4, <1>5

LEMMA RoutineCounts ==
  /\ IsFiniteSet(Routines) /\ SH!N = Cardinality(Routines) /\ SH!N \in Nat \ {0}
  /\ \A spots : /\ IsFiniteSet(At(spots)) /\ Cardinality(At(spots)) \in Nat
                /\ Cardinality(At(spots)) <= SH!N
                /\ Cardinality(At(spots)) > 0 <=> At(spots) # {}
  <1>1. SH!N = Cardinality(Routines)
    BY DEF SH!N, SH!Cardinality, Cardinality
  <1>2. IsFiniteSet(Routines) /\ Cardinality(Routines) \in Nat
    BY ConcurrencyAssumption, FS_CardinalityType
  <1>3. Cardinality(Routines) # 0
    BY <1>2, ConcurrencyAssumption, FS_EmptySet
  <1>4. ASSUME NEW spots
        PROVE  /\ IsFiniteSet(At(spots)) /\ Cardinality(At(spots)) \in Nat
               /\ Cardinality(At(spots)) <= SH!N
               /\ Cardinality(At(spots)) > 0 <=> At(spots) # {}
    <2>1. At(spots) \in SUBSET Routines
      BY DEF At
    <2>2. IsFiniteSet(At(spots)) /\ Cardinality(At(spots)) <= Cardinality(Routines)
      BY <1>2, <2>1, FS_Subset
    <2>3. Cardinality(At(spots)) \in Nat
      BY <2>2, FS_CardinalityType
    <2>4. Cardinality(At(spots)) = 0 <=> At(spots) = {}
      BY <2>2, FS_EmptySet
    <2> QED
      BY <1>1, <2>2, <2>3, <2>4
  <1> QED
    BY <1>1, <1>2, <1>3, <1>4

(* What a move of one goroutine does to a set of places.                      *)
LEMMA MovesCount ==
  ASSUME spot \in [Routines -> Spots], NEW r \in Routines, NEW place,
         spot' = [spot EXCEPT ![r] = place], NEW spots
  PROVE  /\ place \in spots => At(spots)' = At(spots) \union {r}
         /\ place \notin spots => At(spots)' = At(spots) \ {r}
         /\ place \in spots /\ spot[r] \notin spots =>
               Cardinality(At(spots)') = Cardinality(At(spots)) + 1
         /\ (place \in spots <=> spot[r] \in spots) => At(spots)' = At(spots)
  <1>1. spot'[r] = place /\ \A q \in Routines : q # r => spot'[q] = spot[q]
    OBVIOUS
  <1>2. place \in spots => At(spots)' = At(spots) \union {r}
    BY <1>1 DEF At
  <1>3. place \notin spots => At(spots)' = At(spots) \ {r}
    BY <1>1 DEF At
  <1>4. (place \in spots <=> spot[r] \in spots) => At(spots)' = At(spots)
    BY <1>1 DEF At
  <1>5. ASSUME place \in spots, spot[r] \notin spots
        PROVE  Cardinality(At(spots)') = Cardinality(At(spots)) + 1
    <2>1. r \notin At(spots)
      BY <1>5 DEF At
    <2> QED
      BY <1>2, <1>5, <2>1, RoutineCounts, FS_AddElement
  <1> QED
    BY <1>2, <1>3, <1>4, <1>5

LEMMA AllEnded ==
  ASSUME SharedTypeOK, SH!NextSection
  PROVE  /\ stage < 6 /\ stage' = stage + 1 /\ spot' = [r \in Routines |-> "start"]
         /\ UNCHANGED <<local, plain, safe, atomic, mu, readers, writing, setting, got, once>>
         /\ \A spots : "end" \in spots => At(spots) = Routines
         /\ \A spots : "end" \notin spots => At(spots) = {}
         /\ \A spots : "start" \notin spots => At(spots)' = {}
         /\ Arrived = SH!N /\ Arrived' = 0
  <1>1. /\ stage < 6 /\ stage' = stage + 1 /\ spot' = [r \in Routines |-> "start"]
        /\ \A r \in Routines : spot[r] = "end"
        /\ UNCHANGED <<local, plain, safe, atomic, mu, readers, writing, setting, got, once>>
    BY DEF SH!NextSection, SH!counters, SH!config
  <1>2. \A spots : "end" \in spots => At(spots) = Routines
    BY <1>1 DEF At
  <1>3. \A spots : "end" \notin spots => At(spots) = {}
    BY <1>1 DEF At
  <1>4. \A spots : "start" \notin spots => At(spots)' = {}
    BY <1>1 DEF At
  <1>5. Arrived = SH!N /\ Arrived' = 0
    BY <1>2, <1>4, RoutineCounts, FS_EmptySet DEF Arrived
  <1> QED
    BY <1>1, <1>2, <1>3, <1>4, <1>5

LEMMA SharedTypeStep == SharedTypeOK /\ SH!Next => SharedTypeOK'
  <1> SUFFICES ASSUME SharedTypeOK, SH!Next PROVE SharedTypeOK'
    OBVIOUS
  <1> USE DEF SharedTypeOK, Spots, SH!In, SH!To, SH!counters, SH!config
  <1>1. CASE SH!NextSection
    BY <1>1 DEF SH!NextSection
  <1>2. ASSUME NEW r \in Routines, Racer(r) PROVE SharedTypeOK'
    BY <1>2, SectionsApart DEF Racer, SH!RaceRead, SH!RaceWrite
  <1>3. ASSUME NEW r \in Routines, Locker(r) PROVE SharedTypeOK'
    BY <1>3, SectionsApart DEF Locker, SH!Lock, SH!SafeRead, SH!SafeWrite, SH!Unlock
  <1>4. ASSUME NEW r \in Routines, Configurer(r) PROVE SharedTypeOK'
    <2>1. stage' = 3 /\ UNCHANGED <<stage, local, plain, safe, atomic>>
      BY <1>4, SectionsApart
    <2>2. spot' \in [Routines -> Spots]
      BY <1>4 DEF Configurer, SH!RLock, SH!RUnlock, SH!WLock, SH!WUnlock, SH!Get, SH!Set
    <2>3. setting' \in [1..2 -> 0..1]
      BY <1>4 DEF Configurer, SH!RLock, SH!RUnlock, SH!WLock, SH!WUnlock, SH!Get, SH!Set
    <2>4. got' \in [Routines -> [1..2 -> 0..1]]
      BY <1>4 DEF Configurer, SH!RLock, SH!RUnlock, SH!WLock, SH!WUnlock, SH!Get, SH!Set
    <2> QED
      BY <2>1, <2>2, <2>3, <2>4
  <1>5. ASSUME NEW r \in Routines, Initialiser(r) PROVE SharedTypeOK'
    BY <1>5, SectionsApart DEF Initialiser, SH!OnceBegins, SH!InitDB, SH!OnceSkips
  <1>6. ASSUME NEW r \in Routines, SH!AddInt64(r) PROVE SharedTypeOK'
    BY <1>6, SectionsApart DEF SH!AddInt64
  <1> QED
    BY <1>1, <1>2, <1>3, <1>4, <1>5, <1>6, SharedSteps

LEMMA RacingStep == SharedTypeOK /\ Racing /\ SH!Next => Racing'
  <1> SUFFICES ASSUME SharedTypeOK, Racing, SH!Next PROVE Racing'
    OBVIOUS
  <1>0. SH!N' = SH!N /\ SH!N \in Nat \ {0} /\ Arrived \in Nat /\ Arrived <= SH!N
    BY RoutineCounts DEF SH!N, Arrived
  <1>1. CASE SH!NextSection
    BY <1>0, <1>1, AllEnded DEF Racing, SharedTypeOK
  <1>2. ASSUME NEW r \in Routines, SH!RaceRead(r) PROVE Racing'
    <2>1. /\ stage = 1 /\ stage' = 1 /\ spot[r] = "start" /\ plain' = plain
          /\ spot' = [spot EXCEPT ![r] = "write"] /\ local' = [local EXCEPT ![r] = plain]
      BY <1>2 DEF SH!RaceRead, SH!In, SH!To, SH!counters
    <2>2. At({"end"})' = At({"end"}) /\ At({"write"})' = At({"write"}) \union {r}
      BY <2>1 DEF SharedTypeOK, At
    <2>3. Arrived' = Arrived
      BY <2>2 DEF Arrived
    <2> QED
      BY <2>1, <2>2, <2>3 DEF Racing, SharedTypeOK, At
  <1>3. ASSUME NEW r \in Routines, SH!RaceWrite(r) PROVE Racing'
    <2>1. /\ stage = 1 /\ stage' = 1 /\ spot[r] = "write" /\ local' = local
          /\ spot' = [spot EXCEPT ![r] = "end"] /\ plain' = local[r] + 1
      BY <1>3 DEF SH!RaceWrite, SH!In, SH!To
    <2>2. At({"write"})' = At({"write"}) \ {r} /\ r \in At({"write"})
      BY <2>1, MovesCount DEF SharedTypeOK, At
    <2>3. Arrived' = Arrived + 1
      BY <2>1, MovesCount DEF SharedTypeOK, Arrived
    <2>4. \A q \in At({"write"}) : local[q] \in Nat /\ local[q] <= Arrived
      BY <2>1 DEF Racing, SharedTypeOK, At
    <2> QED
      BY <1>0, <2>1, <2>2, <2>3, <2>4 DEF Racing
  <1>4. ASSUME NEW r \in Routines,
               Locker(r) \/ Configurer(r) \/ Initialiser(r) \/ SH!AddInt64(r)
        PROVE  Racing'
    BY <1>0, <1>4, SectionsApart DEF Racing, SharedTypeOK
  <1> QED
    BY <1>1, <1>2, <1>3, <1>4, SharedSteps DEF Racer

LEMMA LockingStep == SharedTypeOK /\ Locking /\ SH!Next => Locking'
  <1> SUFFICES ASSUME SharedTypeOK, Locking, SH!Next PROVE Locking'
    OBVIOUS
  <1> DEFINE counted == At({"unlock", "end"})
             held == At({"read", "write", "unlock"})
  <1>0. /\ SH!N' = SH!N /\ SH!N \in Nat \ {0} /\ Cardinality(counted) \in Nat
        /\ SH!N = Cardinality(Routines) /\ stage \in 1..6
    BY RoutineCounts DEF SH!N, SharedTypeOK
  <1>1. CASE SH!NextSection
    <2>1. counted = Routines /\ held = {}
      BY <1>1, AllEnded
    <2>2. counted' = {} /\ held' = {} /\ At({"write"})' = {}
      BY <1>1, AllEnded
    <2>3. Cardinality(counted') = 0
      BY <2>2, FS_EmptySet
    <2>4. /\ stage' = stage + 1 /\ UNCHANGED <<safe, mu>>
      BY <1>1, AllEnded
    <2> QED
      BY <1>0, <2>1, <2>2, <2>3, <2>4 DEF Locking
  <1>2. ASSUME NEW r \in Routines, SH!Lock(r) PROVE Locking'
    <2>1. /\ stage = 2 /\ stage' = 2 /\ spot[r] = "start" /\ mu = {} /\ mu' = {r}
          /\ spot' = [spot EXCEPT ![r] = "read"] /\ UNCHANGED <<safe, local>>
      BY <1>2 DEF SH!Lock, SH!In, SH!To, SH!None, SH!counters
    <2>2. counted' = counted /\ held' = held \union {r} /\ At({"write"})' = At({"write"})
      BY <2>1 DEF SharedTypeOK, At
    <2> QED
      BY <2>1, <2>2 DEF Locking
  <1>3. ASSUME NEW r \in Routines, SH!SafeRead(r) PROVE Locking'
    <2>1. /\ stage = 2 /\ stage' = 2 /\ spot[r] = "read" /\ mu' = mu /\ safe' = safe
          /\ spot' = [spot EXCEPT ![r] = "write"] /\ local' = [local EXCEPT ![r] = safe]
      BY <1>3 DEF SH!SafeRead, SH!In, SH!To, SH!counters
    <2>2. counted' = counted /\ held' = held /\ At({"write"})' = At({"write"}) \union {r}
      BY <2>1 DEF SharedTypeOK, At
    <2> QED
      BY <2>1, <2>2 DEF Locking, SharedTypeOK, At
  <1>4. ASSUME NEW r \in Routines, SH!SafeWrite(r) PROVE Locking'
    <2>1. /\ stage = 2 /\ stage' = 2 /\ spot[r] = "write" /\ UNCHANGED <<mu, local>>
          /\ spot' = [spot EXCEPT ![r] = "unlock"] /\ safe' = local[r] + 1
      BY <1>4 DEF SH!SafeWrite, SH!In, SH!To
    <2>2. /\ Cardinality(counted') = Cardinality(counted) + 1 /\ held' = held
          /\ At({"write"})' = At({"write"}) \ {r}
      <3>1. counted' = counted \union {r} /\ r \notin counted
        BY <2>1 DEF SharedTypeOK, At
      <3>2. Cardinality(counted') = Cardinality(counted) + 1
        BY <3>1, RoutineCounts, FS_AddElement
      <3>3. held' = held /\ At({"write"})' = At({"write"}) \ {r}
        BY <2>1 DEF SharedTypeOK, At
      <3> QED
        BY <3>2, <3>3
    <2>3. r \in mu /\ At({"write"}) \subseteq mu /\ local[r] = safe
      BY <2>1 DEF Locking, At
    <2>4. At({"write"})' = {}
      BY <2>1, <2>2, <2>3 DEF Locking
    <2> QED
      BY <2>1, <2>2, <2>3, <2>4 DEF Locking
  <1>5. ASSUME NEW r \in Routines, SH!Unlock(r) PROVE Locking'
    <2>1. /\ stage = 2 /\ stage' = 2 /\ spot[r] = "unlock" /\ UNCHANGED <<safe, local>>
          /\ spot' = [spot EXCEPT ![r] = "end"] /\ mu' = {}
      BY <1>5 DEF SH!Unlock, SH!In, SH!To, SH!None, SH!counters
    <2>2. counted' = counted /\ held' = held \ {r} /\ At({"write"})' = At({"write"})
      BY <2>1 DEF SharedTypeOK, At
    <2>3. r \in held
      BY <2>1 DEF At
    <2> QED
      BY <2>1, <2>2, <2>3 DEF Locking
  <1>6. ASSUME NEW r \in Routines,
               Racer(r) \/ Configurer(r) \/ Initialiser(r) \/ SH!AddInt64(r)
        PROVE  Locking'
    BY <1>0, <1>6, SectionsApart DEF Locking
  <1> QED
    BY <1>1, <1>2, <1>3, <1>4, <1>5, <1>6, SharedSteps DEF Locker

LEMMA ConfiguringStep == SharedTypeOK /\ Configuring /\ SH!Next => Configuring'
  <1> SUFFICES ASSUME SharedTypeOK, Configuring, SH!Next PROVE Configuring'
    OBVIOUS
  <1> USE DEF Inside
  <1> DEFINE second == At({"second"})
             past == At({"unlock", "end"})
  <1>0. /\ stage \in 1..6 /\ spot \in [Routines -> Spots]
        /\ setting \in [1..2 -> 0..1] /\ got \in [Routines -> [1..2 -> 0..1]]
    BY DEF SharedTypeOK
  <1>1. CASE SH!NextSection
    <2>1. /\ stage' = stage + 1 /\ UNCHANGED <<readers, writing, setting, got>>
          /\ Inside' = {} /\ second' = {} /\ past' = {}
      BY <1>1, AllEnded
    <2> QED
      BY <1>0, <2>1 DEF Configuring
  <1>2. ASSUME NEW r \in Routines, SH!RLock(r) PROVE Configuring'
    <2>1. /\ r # Writer /\ stage = 3 /\ stage' = 3 /\ spot[r] = "start" /\ ~writing
          /\ spot' = [spot EXCEPT ![r] = "first"] /\ readers' = readers \union {r}
          /\ UNCHANGED <<writing, setting, got>>
      BY <1>2 DEF SH!RLock, SH!In, SH!To
    <2>2. Inside' = Inside \union {r} /\ second' = second /\ past' = past
      BY <1>0, <2>1 DEF At
    <2> QED
      BY <2>1, <2>2 DEF Configuring
  <1>3. ASSUME NEW r \in Routines, SH!RUnlock(r) PROVE Configuring'
    <2>1. /\ r # Writer /\ stage = 3 /\ stage' = 3 /\ spot[r] = "unlock"
          /\ spot' = [spot EXCEPT ![r] = "end"] /\ readers' = readers \ {r}
          /\ UNCHANGED <<writing, setting, got>>
      BY <1>3 DEF SH!RUnlock, SH!In, SH!To
    <2>2. Inside' = Inside \ {r} /\ second' = second /\ past' = past
      BY <1>0, <2>1 DEF At
    <2> QED
      BY <2>1, <2>2 DEF Configuring
  <1>4. ASSUME NEW r \in Routines, SH!WLock(r) PROVE Configuring'
    <2>1. /\ r = Writer /\ stage = 3 /\ stage' = 3 /\ spot[r] = "start" /\ readers = {}
          /\ spot' = [spot EXCEPT ![r] = "first"] /\ writing' = TRUE
          /\ UNCHANGED <<readers, setting, got>>
      BY <1>4 DEF SH!WLock, SH!In, SH!To
    <2>2. Inside' = Inside \union {r} /\ second' = second /\ past' = past
      BY <1>0, <2>1 DEF At
    <2> QED
      BY <2>1, <2>2 DEF Configuring
  <1>5. ASSUME NEW r \in Routines, SH!WUnlock(r) PROVE Configuring'
    <2>1. /\ r = Writer /\ stage = 3 /\ stage' = 3 /\ spot[r] = "unlock"
          /\ spot' = [spot EXCEPT ![r] = "end"] /\ writing' = FALSE
          /\ UNCHANGED <<readers, setting, got>>
      BY <1>5 DEF SH!WUnlock, SH!In, SH!To
    <2>2. Inside' = Inside \ {r} /\ second' = second /\ past' = past
      BY <1>0, <2>1 DEF At
    <2>3. r \in Inside
      BY <2>1 DEF At
    <2> QED
      BY <2>1, <2>2, <2>3 DEF Configuring
  <1>6. ASSUME NEW r \in Routines, SH!Get(r, 1) PROVE Configuring'
    <2>1. /\ r # Writer /\ stage = 3 /\ stage' = 3 /\ spot[r] = "first"
          /\ spot' = [spot EXCEPT ![r] = "second"]
          /\ got' = [got EXCEPT ![r][1] = setting[1]]
          /\ UNCHANGED <<readers, writing, setting>>
      BY <1>6 DEF SH!Get, SH!In, SH!To
    <2>2. Inside' = Inside /\ second' = second \union {r} /\ past' = past /\ r \notin past
      BY <1>0, <2>1, MovesCount DEF At
    <2>3. got'[r][1] = setting[1] /\ \A q \in Routines : q # r => got'[q] = got[q]
      BY <1>0, <2>1
    <2>4. second \subseteq Routines /\ past \subseteq Routines
      BY DEF At
    <2> QED
      BY <2>1, <2>2, <2>3, <2>4 DEF Configuring
  <1>7. ASSUME NEW r \in Routines, SH!Get(r, 2) PROVE Configuring'
    <2>1. /\ r # Writer /\ stage = 3 /\ stage' = 3 /\ spot[r] = "second"
          /\ spot' = [spot EXCEPT ![r] = "unlock"]
          /\ got' = [got EXCEPT ![r][2] = setting[2]]
          /\ UNCHANGED <<readers, writing, setting>>
      BY <1>7 DEF SH!Get, SH!In, SH!To
    <2>2. /\ Inside' = Inside /\ second' = second \ {r} /\ past' = past \union {r}
          /\ r \in second /\ r \in Inside
      BY <1>0, <2>1, MovesCount DEF At
    <2>3. /\ got'[r][1] = got[r][1] /\ got'[r][2] = setting[2]
          /\ \A q \in Routines : q # r => got'[q] = got[q]
      BY <1>0, <2>1
    <2>4. Writer \notin second /\ setting[1] = setting[2] /\ got[r][1] = setting[1]
      BY <2>1, <2>2 DEF Configuring, At
    <2>5. second \subseteq Routines /\ past \subseteq Routines
      BY DEF At
    <2> QED
      BY <2>1, <2>2, <2>3, <2>4, <2>5 DEF Configuring
  <1>8. ASSUME NEW r \in Routines, SH!Set(r, 1) PROVE Configuring'
    <2>1. /\ r = Writer /\ stage = 3 /\ stage' = 3 /\ spot[r] = "first"
          /\ spot' = [spot EXCEPT ![r] = "second"]
          /\ setting' = [setting EXCEPT ![1] = 1]
          /\ UNCHANGED <<readers, writing, got>>
      BY <1>8 DEF SH!Set, SH!In, SH!To
    <2>2. /\ Inside' = Inside /\ second' = second \union {r} /\ past' = past
          /\ r \in Inside /\ second \subseteq Inside
      BY <1>0, <2>1, MovesCount DEF At
    <2>3. setting'[1] = 1
      BY <1>0, <2>1
    <2>4. second \ {Writer} = {}
      BY <2>1, <2>2 DEF Configuring
    <2> QED
      BY <2>1, <2>2, <2>3, <2>4 DEF Configuring
  <1>9. ASSUME NEW r \in Routines, SH!Set(r, 2) PROVE Configuring'
    <2>1. /\ r = Writer /\ stage = 3 /\ stage' = 3 /\ spot[r] = "second"
          /\ spot' = [spot EXCEPT ![r] = "unlock"]
          /\ setting' = [setting EXCEPT ![2] = 1]
          /\ UNCHANGED <<readers, writing, got>>
      BY <1>9 DEF SH!Set, SH!In, SH!To
    <2>2. /\ Inside' = Inside /\ second' = second \ {r} /\ past' = past \union {r}
          /\ r \in second
      BY <1>0, <2>1, MovesCount DEF At
    <2>3. setting'[1] = setting[1] /\ setting'[2] = 1 /\ setting[1] = 1
      BY <1>0, <2>1, <2>2 DEF Configuring
    <2> QED
      BY <2>1, <2>2, <2>3 DEF Configuring
  <1>10. ASSUME NEW r \in Routines, Racer(r) \/ Locker(r) \/ Initialiser(r) \/ SH!AddInt64(r)
         PROVE  Configuring'
    BY <1>0, <1>10, SectionsApart DEF Configuring
  <1>11. \A word \in 1..2 : word = 1 \/ word = 2
    OBVIOUS
  <1> QED
    BY <1>1, <1>2, <1>3, <1>4, <1>5, <1>6, <1>7, <1>8, <1>9, <1>10, <1>11, SharedSteps
    DEF Configurer

LEMMA InitialisingStep == SharedTypeOK /\ Initialising /\ SH!Next => Initialising'
  <1> SUFFICES ASSUME SharedTypeOK, Initialising, SH!Next PROVE Initialising'
    OBVIOUS
  <1>0. stage \in 1..6 /\ spot \in [Routines -> Spots]
    BY DEF SharedTypeOK
  <1>1. CASE SH!NextSection
    BY <1>0, <1>1, AllEnded DEF Initialising
  <1>2. ASSUME NEW r \in Routines, SH!OnceBegins(r) PROVE Initialising'
    <2>1. /\ stage = 4 /\ stage' = 4 /\ once = "new"
          /\ spot' = [spot EXCEPT ![r] = "init"]
      BY <1>2 DEF SH!OnceBegins, SH!In, SH!To
    <2>2. At({"end"}) = {} /\ At({"end"})' = At({"end"}) \ {r}
      BY <1>0, <2>1 DEF Initialising, At
    <2> QED
      BY <2>1, <2>2 DEF Initialising
  <1>3. ASSUME NEW r \in Routines, SH!InitDB(r) \/ SH!OnceSkips(r) PROVE Initialising'
    BY <1>3 DEF SH!InitDB, SH!OnceSkips, SH!In, SH!To, Initialising
  <1>4. ASSUME NEW r \in Routines, Racer(r) \/ Locker(r) \/ Configurer(r) \/ SH!AddInt64(r)
        PROVE  Initialising'
    BY <1>0, <1>4, SectionsApart DEF Initialising
  <1> QED
    BY <1>1, <1>2, <1>3, <1>4, SharedSteps DEF Initialiser

LEMMA AddingStep == SharedTypeOK /\ Adding /\ SH!Next => Adding'
  <1> SUFFICES ASSUME SharedTypeOK, Adding, SH!Next PROVE Adding'
    OBVIOUS
  <1>0. stage \in 1..6 /\ spot \in [Routines -> Spots] /\ SH!N' = SH!N
    BY DEF SharedTypeOK, SH!N
  <1>1. CASE SH!NextSection
    BY <1>0, <1>1, AllEnded DEF Adding
  <1>2. ASSUME NEW r \in Routines, SH!AddInt64(r) PROVE Adding'
    <2>1. /\ stage = 5 /\ stage' = 5 /\ spot[r] = "start" /\ atomic' = atomic + 1
          /\ spot' = [spot EXCEPT ![r] = "end"]
      BY <1>2 DEF SH!AddInt64, SH!In, SH!To
    <2>2. Arrived' = Arrived + 1
      BY <1>0, <2>1, MovesCount DEF Arrived
    <2> QED
      BY <2>1, <2>2 DEF Adding
  <1>3. ASSUME NEW r \in Routines, Racer(r) \/ Locker(r) \/ Configurer(r) \/ Initialiser(r)
        PROVE  Adding'
    BY <1>0, <1>3, SectionsApart DEF Adding
  <1> QED
    BY <1>1, <1>2, <1>3, SharedSteps

LEMMA SharedInitInv == SH!Init => SharedInv
  <1> SUFFICES ASSUME SH!Init PROVE SharedInv
    OBVIOUS
  <1> USE DEF SH!Init
  <1>1. SharedTypeOK
    <2>1. setting \in [1..2 -> 0..1] /\ got \in [Routines -> [1..2 -> 0..1]]
      OBVIOUS
    <2>2. spot \in [Routines -> Spots] /\ local \in [Routines -> Nat]
      BY DEF Spots
    <2> QED
      BY <2>1, <2>2 DEF SharedTypeOK
  <1>2. \A spots : "start" \notin spots => At(spots) = {}
    BY DEF At
  <1>3. Arrived = 0
    BY <1>2, FS_EmptySet DEF Arrived
  <1>4. Racing /\ Locking /\ Initialising /\ Adding
    BY <1>2, <1>3 DEF Racing, Locking, Initialising, Adding, SH!None
  <1>5. Configuring
    BY DEF Configuring
  <1> QED
    BY <1>1, <1>4, <1>5 DEF SharedInv

LEMMA SharedNextInv == SharedInv /\ [SH!Next]_(SH!vars) => SharedInv'
  <1>1. SharedInv /\ SH!Next => SharedInv'
    BY SharedTypeStep, RacingStep, LockingStep, ConfiguringStep, InitialisingStep,
       AddingStep DEF SharedInv
  <1>2. SharedInv /\ UNCHANGED SH!vars => SharedInv'
    BY DEF SH!vars, SH!counters, SH!config, SharedInv, SharedTypeOK, Racing, Locking,
           Configuring, Initialising, Adding, Inside, Arrived, At, SH!N
  <1> QED
    BY <1>1, <1>2

LEMMA SharedInvProtects == SharedInv => SH!LocksProtect
  <1> SUFFICES ASSUME SharedInv PROVE SH!LocksProtect
    OBVIOUS
  <1>1. stage \in 1..6
    BY DEF SharedInv, SharedTypeOK
  <1>2. \A r \in Routines : stage = 3 /\ spot[r] \in {"unlock", "end"} =>
           got[r][1] = got[r][2]
    BY DEF SharedInv, Configuring, At
  <1>3. stage = 4 /\ (\E r \in Routines : spot[r] = "end") => once = "done"
    BY DEF SharedInv, Initialising, At
  <1> QED
    BY <1>1, <1>2, <1>3 DEF SharedInv, Racing, Locking, Adding, SH!LocksProtect

------------------------------------------------------------------------------
(* ContextSelect                                                              *)

CascadeInv == /\ ticks \in [Children -> 0..MaxTicks + 1]
              /\ CS!CancellationCascades

LEMMA CascadeStep == CascadeInv /\ [CS!ContextNext]_(CS!contextVars) => CascadeInv'
  <1> SUFFICES ASSUME CascadeInv, [CS!ContextNext]_(CS!contextVars) PROVE CascadeInv'
    OBVIOUS
  <1> USE ConcurrencyAssumption DEF CascadeInv, CS!CancellationCascades, CS!Stopped
  <1>1. CASE CS!CancelParent \/ CS!TaskReturns \/ CS!DeadlinePasses \/ CS!QueryReturns
    BY <1>1 DEF CS!CancelParent, CS!TaskReturns, CS!DeadlinePasses, CS!QueryReturns
  <1>2. ASSUME NEW c \in Children, CS!WorkerTicks(c) PROVE CascadeInv'
    <2>1. ticks' = [ticks EXCEPT ![c] = ticks[c] + 1] /\ ticks[c] < MaxTicks
      BY <1>2 DEF CS!WorkerTicks
    <2>2. ticks[c] \in 0..MaxTicks + 1
      OBVIOUS
    <2>3. ticks[c] + 1 \in 0..MaxTicks + 1 /\ ticks[c] + 1 # MaxTicks + 1
      BY <2>1, <2>2
    <2>4. \A d \in Children : ticks'[d] = MaxTicks + 1 => ticks[d] = MaxTicks + 1
      BY <2>1, <2>3
    <2> QED
      BY <1>2, <2>1, <2>3, <2>4 DEF CS!WorkerTicks
  <1>3. ASSUME NEW c \in Children, CS!WorkerStops(c) PROVE CascadeInv'
    BY <1>3 DEF CS!WorkerStops
  <1>4. CASE UNCHANGED CS!contextVars
    BY <1>4 DEF CS!contextVars
  <1> QED
    BY <1>1, <1>2, <1>3, <1>4 DEF CS!ContextNext

SelectInv ==
    /\ fastSent \in 0..FastCount /\ slowSent \in 0..SlowCount
    /\ fastRead \in 0..fastSent /\ slowRead \in 0..slowSent
    /\ quit => slowSent = SlowCount
    /\ caller = "quit" => quit

LEMMA SelectStepInv == SelectInv /\ [CS!SelectNext]_(CS!selectVars) => SelectInv'
  <1> SUFFICES ASSUME SelectInv, [CS!SelectNext]_(CS!selectVars) PROVE SelectInv'
    OBVIOUS
  <1> USE ConcurrencyAssumption DEF SelectInv
  <1>1. CASE CS!Answer \/ CS!Timeout \/ CS!LoopBegins \/ CS!BreakOnQuit \/ CS!BreakIdle
    BY <1>1 DEF CS!Answer, CS!Timeout, CS!LoopBegins, CS!BreakOnQuit, CS!BreakIdle,
                CS!channels
  <1>2. CASE CS!FastSends \/ CS!SlowSends
    BY <1>2 DEF CS!FastSends, CS!SlowSends
  <1>3. CASE CS!Quit \/ CS!ReadFast \/ CS!ReadSlow
    BY <1>3 DEF CS!Quit, CS!ReadFast, CS!ReadSlow
  <1>4. CASE UNCHANGED CS!selectVars
    BY <1>4 DEF CS!selectVars
  <1> QED
    BY <1>1, <1>2, <1>3, <1>4 DEF CS!SelectNext

(* Any number of goroutines: the locked and the atomic counter count them     *)
(* all and the racing one loses any but one at most, nobody reads half an     *)
(* update or passes an unfinished once.Do; a returned or cancelled task       *)
(* leaves no context uncancelled, and a worker stops only once its own is     *)
(* over; and neither producer of the select is ever stuck on a full channel.  *)
THEOREM NoHarmInSharing ==
    SH!Spec /\ CS!ContextSpec /\ CS!SelectSpec => []SharedWithoutHarm
  <1>1. SH!Spec => []SH!LocksProtect
    BY SharedInitInv, SharedNextInv, SharedInvProtects, PTL DEF SH!Spec
  <1>2. CS!ContextInit => CascadeInv
    BY ConcurrencyAssumption
    DEF CS!ContextInit, CascadeInv, CS!CancellationCascades, CS!Stopped
  <1>3. CascadeInv => CS!CancellationCascades
    BY DEF CascadeInv
  <1>4. CS!ContextSpec => []CS!CancellationCascades
    BY <1>2, <1>3, CascadeStep, PTL DEF CS!ContextSpec
  <1>5. CS!SelectInit => SelectInv
    BY ConcurrencyAssumption DEF CS!SelectInit, SelectInv
  <1>6. SelectInv => CS!ProducersAreNotStranded
    BY ConcurrencyAssumption DEF SelectInv, CS!ProducersAreNotStranded
  <1>7. CS!SelectSpec => []CS!ProducersAreNotStranded
    BY <1>5, <1>6, SelectStepInv, PTL DEF CS!SelectSpec
  <1>8. /\ SH!LocksProtect /\ CS!CancellationCascades /\ CS!ProducersAreNotStranded
        => SharedWithoutHarm
    BY DEF SharedWithoutHarm
  <1> QED
    BY <1>1, <1>4, <1>7, <1>8, PTL

------------------------------------------------------------------------------
(* Retry                                                                      *)

LEMMA CappedIsSchedule ==
  ASSUME NEW d \in Nat
  PROVE  /\ RT!Grow(d) \in Nat
         /\ RT!Grow(d) = IF d * Multiplier < MaxDelay THEN d * Multiplier ELSE MaxDelay
  <1>1. d * Multiplier \in Nat /\ MaxDelay \in Nat
    BY ConcurrencyAssumption
  <1> QED
    BY <1>1 DEF RT!Grow, RT!Capped

(* The schedule is what its recursion says.                                   *)
LEMMA ScheduleRecursion ==
  /\ MaxRetries >= 1 => RT!Schedule[1] = InitialDelay
  /\ \A k \in 2..MaxRetries : RT!Schedule[k - 1] \in Nat =>
        RT!Schedule[k] = RT!Grow(RT!Schedule[k - 1])
  <1> DEFINE Body(d) == [i \in 1..MaxRetries |->
                            IF i = 1 THEN InitialDelay
                            ELSE LET longer == d[i - 1] * Multiplier
                                 IN IF longer < MaxDelay THEN longer ELSE MaxDelay]
             table == [p \in (1..MaxRetries) \X Nat |->
                          IF p[1] = 1 THEN InitialDelay ELSE RT!Grow(p[2])]
  <1>0. MaxRetries \in Nat /\ InitialDelay \in Nat
    BY ConcurrencyAssumption
  <1>1. table \in [(1..MaxRetries) \X Nat -> Nat]
    BY <1>0, CappedIsSchedule
  <1>2. \A k \in 1..MaxRetries, d \in Nat :
           table[<<k, d>>] = IF k = 1 THEN InitialDelay ELSE RT!Grow(d)
    OBVIOUS
  <1> HIDE DEF table
  <1>3. PICK f \in [0..MaxRetries -> Nat] :
           Iterates(f, MaxRetries, InitialDelay, table)
    BY <1>0, <1>1, RecursionExists
  <1> DEFINE g == [i \in 1..MaxRetries |-> f[i]]
  <1>4. ASSUME NEW i \in 1..MaxRetries PROVE g[i] = Body(g)[i]
    <2>1. i - 1 \in 0..MaxRetries /\ f[i - 1] \in Nat
      BY <1>0
    <2>2. f[i] = IF i = 1 THEN InitialDelay ELSE RT!Grow(f[i - 1])
      BY <1>2, <1>3, <2>1 DEF Iterates
    <2>3. CASE i = 1
      BY <2>2, <2>3
    <2>4. CASE i # 1
      <3>1. i - 1 \in 1..MaxRetries /\ g[i - 1] = f[i - 1]
        BY <1>0, <2>4
      <3>2. g[i] = RT!Grow(g[i - 1]) /\ g[i - 1] \in Nat
        BY <2>1, <2>2, <2>4, <3>1
      <3> QED
        BY <2>4, <3>2, CappedIsSchedule
    <2> QED
      BY <2>3, <2>4
  <1>5. g = Body(g)
    BY <1>4
  <1>6. RT!Schedule = CHOOSE d : d = Body(d)
    BY DEF RT!Schedule
  <1>7. RT!Schedule = Body(RT!Schedule)
    BY <1>5, <1>6
  <1>8. MaxRetries >= 1 => RT!Schedule[1] = InitialDelay
    BY <1>0, <1>7
  <1>9. ASSUME NEW k \in 2..MaxRetries, RT!Schedule[k - 1] \in Nat
        PROVE  RT!Schedule[k] = RT!Grow(RT!Schedule[k - 1])
    <2> DEFINE longer == RT!Schedule[k - 1] * Multiplier
    <2>1. k \in 1..MaxRetries /\ k # 1
      BY <1>0
    <2>2. RT!Schedule[k] = IF longer < MaxDelay THEN longer ELSE MaxDelay
      BY <1>7, <2>1
    <2>3. RT!Grow(RT!Schedule[k - 1]) = IF longer < MaxDelay THEN longer ELSE MaxDelay
      BY <1>9, CappedIsSchedule
    <2> QED
      BY <2>2, <2>3
  <1> QED
    BY <1>8, <1>9

(* The delay in hand is the next one of the schedule while fn runs, and the   *)
(* current one during the wait for it; jitter is in the waits alone.          *)
RetryInv ==
    /\ attempt \in 0..MaxRetries /\ delay \in Nat
    /\ waits \in Seq(Nat) /\ Len(waits) = attempt
    /\ \A i \in 1..attempt : waits[i] \in RT!Jittered(RT!Schedule[i])
    /\ step = "fn" /\ attempt < MaxRetries => delay = RT!Schedule[attempt + 1]
    /\ step = "wait" => attempt >= 1 /\ delay = RT!Schedule[attempt]
    /\ step \in {"fn", "wait", "ok", "fatal", "exhausted", "cancelled"}
    /\ calls = IF step \in {"wait", "cancelled"} THEN attempt ELSE attempt + 1
    /\ step = "ok" <=> lastErr = "nil"
    /\ step = "fatal" <=> lastErr = "fatal"
    /\ step \in {"wait", "cancelled", "exhausted"} => lastErr = "retryable"
    /\ step = "exhausted" => attempt = MaxRetries
    /\ step = "cancelled" => ctxOver

LEMMA RetryInitInv == RT!Init => RetryInv
  BY ScheduleRecursion, ConcurrencyAssumption DEF RT!Init, RetryInv

(* A wait is a number, whatever the jitter takes from the delay.              *)
LEMMA JitteredIsNat ==
  ASSUME NEW d \in Nat, NEW w \in RT!Jittered(d)
  PROVE  w \in Nat
  <1>1. PICK jitter \in RT!Jitters : w = RT!NotNegative(d + jitter * d)
    BY DEF RT!Jittered
  <1>2. jitter \in Int
    BY ConcurrencyAssumption DEF RT!Jitters
  <1>3. d + jitter * d \in Int
    BY <1>2
  <1> QED
    BY <1>1, <1>3 DEF RT!NotNegative

LEMMA RetryNextInv == RetryInv /\ [RT!Next]_(RT!vars) => RetryInv'
  <1> SUFFICES ASSUME RetryInv, [RT!Next]_(RT!vars) PROVE RetryInv'
    OBVIOUS
  <1>0. MaxRetries \in Nat
    BY ConcurrencyAssumption
  <1>1. ASSUME NEW err \in {"nil", "retryable", "fatal"}, RT!Returned(err)
        PROVE  RetryInv'
    <2>1. step = "fn" /\ lastErr' = err /\ UNCHANGED <<delay, calls, ctxOver>>
      BY <1>1 DEF RT!Returned
    <2>2. CASE err = "retryable" /\ attempt < MaxRetries
      <3>1. PICK w \in RT!Jittered(delay) : waits' = Append(waits, w)
        BY <1>1, <2>2 DEF RT!Returned
      <3>2. attempt' = attempt + 1 /\ step' = "wait"
        BY <1>1, <2>2 DEF RT!Returned
      <3>3. /\ attempt \in 0..MaxRetries /\ delay \in Nat
            /\ waits \in Seq(Nat) /\ Len(waits) = attempt
            /\ \A i \in 1..attempt : waits[i] \in RT!Jittered(RT!Schedule[i])
            /\ delay = RT!Schedule[attempt + 1] /\ calls = attempt + 1
        BY <2>1, <2>2 DEF RetryInv
      <3>4. w \in Nat /\ w \in RT!Jittered(RT!Schedule[attempt + 1])
        BY <3>1, <3>3, JitteredIsNat
      <3>5. attempt' \in 0..MaxRetries /\ attempt' >= 1 /\ attempt' \in Nat
        BY <1>0, <2>2, <3>2, <3>3
      <3>6. waits' \in Seq(Nat) /\ Len(waits') = attempt'
        BY <3>1, <3>2, <3>3, <3>4
      <3>7. \A i \in 1..attempt' : waits'[i] \in RT!Jittered(RT!Schedule[i])
        <4>1. ASSUME NEW i \in 1..attempt' PROVE waits'[i] \in RT!Jittered(RT!Schedule[i])
          <5>1. CASE i = attempt + 1
            BY <3>1, <3>3, <3>4, <5>1
          <5>2. CASE i # attempt + 1
            <6>1. i \in 1..attempt
              BY <3>2, <3>3, <5>2
            <6>2. waits'[i] = waits[i]
              BY <3>1, <3>3, <6>1
            <6> QED
              BY <3>3, <6>1, <6>2
          <5> QED
            BY <5>1, <5>2
        <4> QED
          BY <4>1
      <3> QED
        BY <2>1, <2>2, <3>2, <3>3, <3>5, <3>6, <3>7 DEF RetryInv
    <2>3. CASE ~(err = "retryable" /\ attempt < MaxRetries)
      <3>1. /\ UNCHANGED <<attempt, waits>>
            /\ \/ err = "nil" /\ step' = "ok"
               \/ err = "fatal" /\ step' = "fatal"
               \/ err = "retryable" /\ step' = "exhausted"
        BY <1>1, <2>3 DEF RT!Returned
      <3>2. step' = "exhausted" => attempt = MaxRetries
        BY <1>0, <2>3, <3>1 DEF RetryInv
      <3> QED
        BY <2>1, <3>1, <3>2 DEF RetryInv
    <2> QED
      BY <2>2, <2>3
  <1>2. CASE RT!TimerFires
    <2>1. /\ step = "wait" /\ step' = "fn" /\ delay' = RT!Grow(delay)
          /\ calls' = calls + 1
          /\ UNCHANGED <<attempt, lastErr, waits, ctxOver>>
      BY <1>2 DEF RT!TimerFires
    <2>2. /\ attempt \in 1..MaxRetries /\ delay \in Nat /\ delay = RT!Schedule[attempt]
          /\ calls = attempt /\ lastErr = "retryable"
      BY <1>0, <2>1 DEF RetryInv
    <2>3. delay' \in Nat
      BY <2>1, <2>2, CappedIsSchedule
    <2>4. ASSUME attempt < MaxRetries PROVE delay' = RT!Schedule[attempt + 1]
      <3>1. attempt + 1 \in 2..MaxRetries /\ attempt + 1 - 1 = attempt
        BY <1>0, <2>2, <2>4
      <3> QED
        BY <2>1, <2>2, <3>1, ScheduleRecursion
    <2>5. /\ attempt' \in 0..MaxRetries /\ waits' \in Seq(Nat) /\ Len(waits') = attempt'
          /\ \A i \in 1..attempt' : waits'[i] \in RT!Jittered(RT!Schedule[i])
      BY <2>1 DEF RetryInv
    <2>6. attempt' < MaxRetries => delay' = RT!Schedule[attempt' + 1]
      BY <2>1, <2>4
    <2> QED
      BY <2>1, <2>2, <2>3, <2>5, <2>6 DEF RetryInv
  <1>3. CASE RT!CtxEnds
    BY <1>3 DEF RT!CtxEnds, RetryInv
  <1>4. CASE RT!Cancelled
    BY <1>4 DEF RT!Cancelled, RetryInv
  <1>5. CASE UNCHANGED RT!vars
    BY <1>5 DEF RT!vars, RetryInv
  <1> QED
    BY <1>1, <1>2, <1>3, <1>4, <1>5 DEF RT!Next

LEMMA DoublingsRecursion ==
  /\ RT!Doublings[0] = 1
  /\ \A k \in 1..Retries : RT!Doublings[k] = 2 * RT!Doublings[k - 1]
  <1> DEFINE Body(d) == [k \in 0..Retries |-> IF k = 0 THEN 1 ELSE 2 * d[k - 1]]
             table == [p \in (1..Retries) \X Nat |-> 2 * p[2]]
  <1>0. Retries \in Nat /\ 1 \in Nat
    BY ConcurrencyAssumption
  <1>1. table \in [(1..Retries) \X Nat -> Nat]
    OBVIOUS
  <1>2. \A k \in 1..Retries, d \in Nat : table[<<k, d>>] = 2 * d
    OBVIOUS
  <1> HIDE DEF table
  <1>3. PICK f \in [0..Retries -> Nat] :
           Iterates(f, Retries, 1, table)
    BY <1>0, <1>1, RecursionExists
  <1>4. ASSUME NEW k \in 1..Retries PROVE f[k] = 2 * f[k - 1]
    <2>1. k - 1 \in 0..Retries
      BY <1>0
    <2>2. f[k - 1] \in Nat
      BY <2>1
    <2> QED
      BY <1>2, <1>3, <2>2 DEF Iterates
  <1>5. f = Body(f)
    BY <1>3, <1>4 DEF Iterates
  <1>6. RT!Doublings = CHOOSE d : d = Body(d)
    BY DEF RT!Doublings
  <1>7. RT!Doublings = Body(RT!Doublings)
    BY <1>5, <1>6
  <1> QED
    BY <1>0, <1>7

HTTPInv ==
    /\ tries \in 0..Retries
    /\ client \in {"do", "backoff", "response", "read", "exhausted", "cancelled"}
    /\ client \in {"backoff", "cancelled"} => tries >= 1
    /\ RT!NoBodyLeft

LEMMA HTTPNextInv == HTTPInv /\ [RT!HTTPNext]_(RT!httpVars) => HTTPInv'
  <1> SUFFICES ASSUME HTTPInv, [RT!HTTPNext]_(RT!httpVars) PROVE HTTPInv'
    OBVIOUS
  <1> USE ConcurrencyAssumption DEF HTTPInv, RT!NoBodyLeft
  <1>1. CASE RT!NoResponse \/ RT!ServerError
    <2>1. client = "do" /\ UNCHANGED <<backoff, bodies, expired>>
      BY <1>1 DEF RT!NoResponse, RT!ServerError
    <2>2. CASE tries < Retries
      <3>1. tries' = tries + 1 /\ client' = "backoff" /\ tries + 1 - 1 = tries
        BY <1>1, <2>2 DEF RT!NoResponse, RT!ServerError, RT!NextRound
      <3> QED
        BY <2>1, <2>2, <3>1
    <2>3. CASE ~(tries < Retries)
      <3>1. tries' = tries /\ client' = "exhausted"
        BY <1>1, <2>3 DEF RT!NoResponse, RT!ServerError, RT!NextRound
      <3> QED
        BY <2>1, <3>1
    <2> QED
      BY <2>2, <2>3
  <1>2. CASE RT!Response \/ RT!ReadJSON
    BY <1>2 DEF RT!Response, RT!ReadJSON
  <1>3. CASE RT!BackoffOver
    <2>1. client = "backoff" /\ client' = "do" /\ backoff' = 2 * backoff
          /\ UNCHANGED <<tries, bodies, expired>>
      BY <1>3 DEF RT!BackoffOver
    <2>2. tries \in 1..Retries
      BY <2>1
    <2> QED
      BY <2>1, <2>2, DoublingsRecursion
  <1>4. CASE RT!GiveUp \/ RT!Expire
    BY <1>4 DEF RT!GiveUp, RT!Expire
  <1>5. CASE UNCHANGED RT!httpVars
    BY <1>5 DEF RT!httpVars
  <1> QED
    BY <1>1, <1>2, <1>3, <1>4, <1>5 DEF RT!HTTPNext

(* Any limit, delays, multiplier and jitter: every wait is that of the printed *)
(* schedule give or take its own jitter, with one call of fn after each that   *)
(* ran out, and the outcome is that of the last call; the HTTP client doubles  *)
(* its waits and leaves no body open behind it.                                *)
THEOREM WaitsAreScheduled == RT!Spec /\ RT!HTTPSpec => []RetriesKeepSchedule
  <1>1. RetryInv => RT!KeepsSchedule
    BY DEF RetryInv, RT!KeepsSchedule
  <1>2. RT!Spec => []RT!KeepsSchedule
    BY <1>1, RetryInitInv, RetryNextInv, PTL DEF RT!Spec
  <1>3. RT!HTTPInit => HTTPInv
    BY DoublingsRecursion, ConcurrencyAssumption DEF RT!HTTPInit, HTTPInv, RT!NoBodyLeft
  <1>4. HTTPInv => RT!NoBodyLeft
    BY DEF HTTPInv
  <1>5. RT!HTTPSpec => []RT!NoBodyLeft
    BY <1>3, <1>4, HTTPNextInv, PTL DEF RT!HTTPSpec
  <1>6. RT!KeepsSchedule /\ RT!NoBodyLeft => RetriesKeepSchedule
    BY DEF RetriesKeepSchedule
  <1> QED
    BY <1>2, <1>5, <1>6, PTL

------------------------------------------------------------------------------
(* ChannelPatterns: generate, square and addTen                               *)

Held(value) == IF value = 0 THEN 0 ELSE 1

(* Numbers sent are received or in one of the two hands on the way, which     *)
(* hold the next ones; stages close in order.                                 *)
ChainInv ==
    /\ sent \in 0..Numbers /\ ended \in 0..3
    /\ toSend \in [1..2 -> Nat] /\ results \in Seq(Nat)
    /\ sent = Len(results) + Held(toSend[1]) + Held(toSend[2])
    /\ toSend[1] # 0 => toSend[1] = sent * sent
    /\ toSend[2] # 0 => toSend[2] = (Len(results) + 1) * (Len(results) + 1) + 10
    /\ \A i \in 1..Len(results) : results[i] = i * i + 10
    /\ ended >= 1 => sent = Numbers
    /\ ended >= 2 => toSend[1] = 0
    /\ ended >= 3 => toSend[2] = 0

LEMMA SquareNat ==
  ASSUME NEW n \in Nat
  PROVE  n * n \in Nat /\ (n + 1) * (n + 1) \in Nat /\ (n + 1) * (n + 1) # 0
  OBVIOUS

LEMMA ChainNextInv == ChainInv /\ [CP!Next]_(CP!vars) => ChainInv'
  <1> SUFFICES ASSUME ChainInv, [CP!Next]_(CP!vars) PROVE ChainInv'
    OBVIOUS
  <1>0. /\ Numbers \in Nat /\ sent \in 0..Numbers /\ ended \in 0..3
        /\ toSend \in [1..2 -> Nat] /\ results \in Seq(Nat)
        /\ toSend[1] \in Nat /\ toSend[2] \in Nat /\ Len(results) \in Nat
    BY ConcurrencyAssumption DEF ChainInv
  <1>1. CASE CP!Generate
    <2>1. /\ sent < Numbers /\ toSend[1] = 0 /\ sent' = sent + 1
          /\ toSend' = [toSend EXCEPT ![1] = (sent + 1) * (sent + 1)]
          /\ UNCHANGED <<ended, results>>
      BY <1>1 DEF CP!Generate
    <2>2. (sent + 1) * (sent + 1) \in Nat /\ (sent + 1) * (sent + 1) # 0
      BY <1>0, SquareNat
    <2>3. /\ toSend'[1] = (sent + 1) * (sent + 1) /\ toSend'[2] = toSend[2]
          /\ toSend' \in [1..2 -> Nat]
      BY <1>0, <2>1, <2>2
    <2>4. toSend'[1] = sent' * sent' /\ toSend'[1] # 0
      BY <2>1, <2>2, <2>3
    <2>5. ended = 0
      BY <1>0, <2>1 DEF ChainInv
    <2>6. sent' \in 0..Numbers /\ sent' = Len(results') + Held(toSend'[1]) + Held(toSend'[2])
      BY <1>0, <2>1, <2>3, <2>4 DEF ChainInv, Held
    <2> QED
      BY <1>0, <2>1, <2>3, <2>4, <2>5, <2>6 DEF ChainInv
  <1>2. CASE CP!Square
    <2>1. /\ toSend[1] # 0 /\ toSend[2] = 0 /\ toSend' = <<0, toSend[1] + 10>>
          /\ UNCHANGED <<sent, ended, results>>
      BY <1>2 DEF CP!Square
    <2>2. toSend'[1] = 0 /\ toSend'[2] = toSend[1] + 10 /\ toSend' \in [1..2 -> Nat]
      BY <1>0, <2>1
    <2>3. sent = Len(results) + 1 /\ toSend[1] = sent * sent
      BY <1>0, <2>1 DEF ChainInv, Held
    <2>4. toSend'[2] = (Len(results) + 1) * (Len(results) + 1) + 10
      BY <2>2, <2>3
    <2>5. ended < 2 /\ toSend'[2] # 0
      BY <1>0, <2>1, <2>2 DEF ChainInv
    <2>6. sent = Len(results) + Held(toSend'[1]) + Held(toSend'[2])
      BY <2>2, <2>3, <2>5, <1>0 DEF Held
    <2> QED
      BY <1>0, <2>1, <2>2, <2>4, <2>5, <2>6 DEF ChainInv
  <1>3. CASE CP!AddTen
    <2>1. /\ toSend[2] # 0 /\ results' = Append(results, toSend[2])
          /\ toSend' = [toSend EXCEPT ![2] = 0]
          /\ UNCHANGED <<sent, ended>>
      BY <1>3 DEF CP!AddTen
    <2>2. toSend'[1] = toSend[1] /\ toSend'[2] = 0 /\ toSend' \in [1..2 -> Nat]
      BY <1>0, <2>1
    <2>3. /\ results' \in Seq(Nat) /\ Len(results') = Len(results) + 1
          /\ results'[Len(results) + 1] = toSend[2]
          /\ \A i \in 1..Len(results) : results'[i] = results[i]
      BY <1>0, <2>1
    <2>4. toSend[2] = (Len(results) + 1) * (Len(results) + 1) + 10
      BY <2>1 DEF ChainInv
    <2>5. ASSUME NEW i \in 1..Len(results') PROVE results'[i] = i * i + 10
      <3>1. CASE i = Len(results) + 1
        BY <2>3, <2>4, <3>1
      <3>2. CASE i # Len(results) + 1
        <4>1. i \in 1..Len(results)
          BY <1>0, <2>3, <3>2
        <4> QED
          BY <2>3, <4>1 DEF ChainInv
      <3> QED
        BY <3>1, <3>2
    <2>6. sent = Len(results') + Held(toSend'[1]) + Held(toSend'[2])
      BY <1>0, <2>1, <2>2, <2>3 DEF ChainInv, Held
    <2> QED
      BY <1>0, <2>1, <2>2, <2>3, <2>5, <2>6 DEF ChainInv
  <1>4. CASE CP!StageEnds
    <2>1. /\ ended < 3 /\ ended' = ended + 1
          /\ IF ended = 0 THEN sent = Numbers ELSE toSend[ended] = 0
          /\ UNCHANGED <<sent, toSend, results>>
      BY <1>4 DEF CP!StageEnds
    <2>2. ended = 0 \/ ended = 1 \/ ended = 2
      BY <1>0, <2>1
    <2> QED
      BY <1>0, <2>1, <2>2 DEF ChainInv
  <1>5. CASE UNCHANGED CP!chain
    BY <1>5 DEF CP!chain, ChainInv
  <1>6. ASSUME NEW p \in Producers,
               CP!Produce(p) \/ CP!ProducerCloses(p) \/ CP!Merge(p) \/ CP!ForwarderLeaves(p)
        PROVE  UNCHANGED CP!chain
    BY <1>6 DEF CP!Produce, CP!ProducerCloses, CP!Merge, CP!ForwarderLeaves
  <1>7. CASE \/ CP!ChainEnds \/ CP!CloseMerged \/ CP!FanInEnds \/ CP!Consume
             \/ CP!CloseDone \/ CP!ProducerCancelled \/ CP!MainLeaves
    <2>1. UNCHANGED CP!chain
      BY <1>7 DEF CP!ChainEnds, CP!CloseMerged, CP!FanInEnds, CP!Consume, CP!CloseDone,
                  CP!ProducerCancelled, CP!MainLeaves
    <2> QED
      BY <1>5, <2>1
  <1>8. CASE UNCHANGED CP!vars
    BY <1>5, <1>8 DEF CP!vars
  <1> QED
    BY <1>1, <1>2, <1>3, <1>4, <1>5, <1>6, <1>7, <1>8 DEF CP!Next

LEMMA ChainInvDelivers == ChainInv => CP!ChainDelivers
  <1> SUFFICES ASSUME ChainInv PROVE CP!ChainDelivers
    OBVIOUS
  <1> DEFINE carried == {s \in 1..2 : toSend[s] # 0}
  <1>0. /\ Len(results) \in Nat /\ results \in Seq(Nat) /\ sent \in Nat
        /\ sent = Len(results) + Held(toSend[1]) + Held(toSend[2])
    BY ConcurrencyAssumption DEF ChainInv
  <1>1. results = [i \in 1..Len(results) |-> i * i + 10]
    BY DEF ChainInv
  <1>2. Cardinality(carried) = Held(toSend[1]) + Held(toSend[2])
    <2>1. CASE toSend[1] # 0 /\ toSend[2] # 0
      <3>1. carried = {1} \union {2} /\ 2 \notin {1}
        BY <2>1
      <3>2. IsFiniteSet({1}) /\ Cardinality({1}) = 1
        BY FS_Singleton
      <3>3. Cardinality(carried) = 2
        BY <3>1, <3>2, FS_AddElement
      <3> QED
        BY <2>1, <3>3 DEF Held
    <2>2. CASE toSend[1] # 0 /\ toSend[2] = 0
      <3>1. carried = {1}
        BY <2>2
      <3>2. Cardinality(carried) = 1
        BY <3>1, FS_Singleton
      <3> QED
        BY <2>2, <3>2 DEF Held
    <2>3. CASE toSend[1] = 0 /\ toSend[2] # 0
      <3>1. carried = {2}
        BY <2>3
      <3>2. Cardinality(carried) = 1
        BY <3>1, FS_Singleton
      <3> QED
        BY <2>3, <3>2 DEF Held
    <2>4. CASE toSend[1] = 0 /\ toSend[2] = 0
      <3>1. carried = {}
        BY <2>4
      <3>2. Cardinality(carried) = 0
        BY <3>1, FS_EmptySet
      <3> QED
        BY <2>4, <3>2 DEF Held
    <2> QED
      BY <2>1, <2>2, <2>3, <2>4
  <1>3. CP!Cardinality(carried) = Cardinality(carried)
    BY DEF CP!Cardinality, Cardinality
  <1> HIDE DEF carried
  <1>4. Len(results) = sent - CP!Cardinality(carried)
    <2>1. Len(results) = sent - (Held(toSend[1]) + Held(toSend[2]))
      <3>1. Held(toSend[1]) \in Nat /\ Held(toSend[2]) \in Nat
        BY DEF Held
      <3> QED
        BY <1>0, <3>1
    <2> QED
      BY <1>2, <1>3, <2>1
  <1>5. ended = 3 => Len(results) = Numbers
    BY <1>0 DEF ChainInv, Held
  <1> QED
    BY <1>1, <1>4, <1>5 DEF CP!ChainDelivers, carried

------------------------------------------------------------------------------
(* ChannelPatterns: fanIn and the done channel                                *)

(* What has come through of p; its forwarder holds the next, if any.          *)
Through(p) == made[p] - Held(forward[p])

FanInInv ==
    /\ made \in [Producers -> 0..PerSource] /\ forward \in [Producers -> 0..PerSource]
    /\ \A p \in Producers : forward[p] # 0 => forward[p] = made[p]
    /\ merged \in Seq(Producers \X Nat)
    /\ \A j, k \in DOMAIN merged :
          j < k /\ merged[j][1] = merged[k][1] => merged[j][2] < merged[k][2]
    /\ \A p \in Producers : CP!Delivered(p) = 1..Through(p)
    /\ \A p \in chClosed : made[p] = PerSource
    /\ left \subseteq chClosed /\ \A p \in left : forward[p] = 0
    /\ mergedClosed => left = Producers
    /\ chClosed \subseteq Producers

DoneInv == /\ Len(eaten) = counter /\ eaten \in Seq(Nat) /\ counter \in Nat
           /\ done => Len(eaten) = Wanted
           /\ outClosed => done

LEMMA FanInNextInv == FanInInv /\ [CP!Next]_(CP!vars) => FanInInv'
  <1> SUFFICES ASSUME FanInInv, [CP!Next]_(CP!vars) PROVE FanInInv'
    OBVIOUS
  <1>0. /\ PerSource \in Nat
        /\ made \in [Producers -> 0..PerSource] /\ forward \in [Producers -> 0..PerSource]
        /\ merged \in Seq(Producers \X Nat)
    BY ConcurrencyAssumption DEF FanInInv
  <1>1. ASSUME NEW p \in Producers, CP!Produce(p) PROVE FanInInv'
    <2>1. /\ made[p] < PerSource /\ forward[p] = 0
          /\ made' = [made EXCEPT ![p] = made[p] + 1]
          /\ forward' = [forward EXCEPT ![p] = made[p] + 1]
          /\ UNCHANGED <<chClosed, left, mergedClosed, merged>>
      BY <1>1 DEF CP!Produce
    <2>2. made[p] + 1 \in 0..PerSource /\ made[p] + 1 # 0
      BY <1>0, <2>1
    <2>3. /\ made' \in [Producers -> 0..PerSource] /\ forward' \in [Producers -> 0..PerSource]
          /\ made'[p] = made[p] + 1 /\ forward'[p] = made[p] + 1
          /\ \A q \in Producers : q # p => made'[q] = made[q] /\ forward'[q] = forward[q]
      BY <1>0, <2>1, <2>2
    <2>4. \A q \in Producers : Through(q)' = Through(q)
      BY <1>0, <2>1, <2>2, <2>3 DEF Through, Held
    <2>5. \A q : CP!Delivered(q)' = CP!Delivered(q)
      BY <2>1 DEF CP!Delivered
    <2>6. p \notin chClosed
      BY <1>0, <2>1 DEF FanInInv
    <2>7. \A q \in Producers : forward'[q] # 0 => forward'[q] = made'[q]
      BY <2>3 DEF FanInInv
    <2>8. \A q \in Producers : CP!Delivered(q)' = 1..Through(q)'
      BY <2>4, <2>5 DEF FanInInv
    <2> QED
      BY <2>1, <2>3, <2>6, <2>7, <2>8 DEF FanInInv
  <1>2. ASSUME NEW p \in Producers, CP!Merge(p) PROVE FanInInv'
    <2> DEFINE n == Len(merged)
    <2>1. /\ forward[p] # 0 /\ forward' = [forward EXCEPT ![p] = 0]
          /\ merged' = Append(merged, <<p, forward[p]>>)
          /\ UNCHANGED <<made, chClosed, left, mergedClosed>>
      BY <1>2 DEF CP!Merge
    <2>2. /\ forward[p] = made[p] /\ forward[p] \in 1..PerSource /\ Through(p) = made[p] - 1
      BY <1>0, <2>1 DEF FanInInv, Through, Held
    <2>3. /\ n \in Nat /\ DOMAIN merged = 1..n /\ DOMAIN merged' = 1..n + 1
          /\ merged' \in Seq(Producers \X Nat)
          /\ merged'[n + 1] = <<p, forward[p]>>
          /\ \A k \in 1..n : merged'[k] = merged[k]
      BY <1>0, <2>1, <2>2
    <2>4. /\ forward'[p] = 0 /\ forward' \in [Producers -> 0..PerSource]
          /\ \A q \in Producers : q # p => forward'[q] = forward[q]
      BY <1>0, <2>1
    <2>a. \A q, x : x \in CP!Delivered(q) <=>
                       \E k \in 1..n : merged[k][1] = q /\ merged[k][2] = x
      BY <2>3 DEF CP!Delivered
    <2>b. \A q, x : x \in CP!Delivered(q)' <=>
                       \E k \in 1..n + 1 : merged'[k][1] = q /\ merged'[k][2] = x
      BY <2>3 DEF CP!Delivered
    <2>c. \A q, x : x \in CP!Delivered(q)' <=>
                       x \in CP!Delivered(q) \/ (p = q /\ x = forward[p])
      <3> TAKE q, x
      <3>1. \A k \in 1..n + 1 : k \in 1..n \/ k = n + 1
        BY <2>3
      <3>2. n + 1 \in 1..n + 1 /\ \A k \in 1..n : k \in 1..n + 1
        BY <2>3
      <3>3. merged'[n + 1][1] = p /\ merged'[n + 1][2] = forward[p]
        BY <2>3
      <3>4. (\E k \in 1..n + 1 : merged'[k][1] = q /\ merged'[k][2] = x)
            <=> \/ \E k \in 1..n : merged[k][1] = q /\ merged[k][2] = x
                \/ p = q /\ x = forward[p]
        BY <2>3, <3>1, <3>2, <3>3
      <3> QED
        BY <2>a, <2>b, <3>4
    <2>5. \A q : q # p => CP!Delivered(q)' = CP!Delivered(q)
      BY <2>c
    <2>6. CP!Delivered(p)' = CP!Delivered(p) \union {made[p]}
      BY <2>2, <2>c
    <2>7. CP!Delivered(p) = 1..made[p] - 1
      BY <2>2 DEF FanInInv
    <2>8. CP!Delivered(p)' = 1..Through(p)'
      <3>1. Through(p)' = made[p]
        BY <1>0, <2>1, <2>4 DEF Through, Held
      <3>2. (1..made[p] - 1) \union {made[p]} = 1..made[p]
        BY <2>2
      <3> QED
        BY <2>6, <2>7, <3>1, <3>2
    <2>9. \A q \in Producers : q # p => Through(q)' = Through(q)
      BY <2>1, <2>4 DEF Through, Held
    <2>10. \A q \in Producers : CP!Delivered(q)' = 1..Through(q)'
      BY <2>5, <2>8, <2>9 DEF FanInInv
    <2>11. ASSUME NEW j \in DOMAIN merged', NEW k \in DOMAIN merged',
                  j < k, merged'[j][1] = merged'[k][1]
           PROVE  merged'[j][2] < merged'[k][2]
      <3>1. j \in 1..n /\ merged'[j] = merged[j]
        BY <2>3, <2>11
      <3>2. CASE k \in 1..n
        BY <2>3, <2>11, <3>1, <3>2 DEF FanInInv
      <3>3. CASE k = n + 1
        <4>1. merged'[k][1] = p /\ merged'[k][2] = made[p]
          BY <2>2, <2>3, <3>3
        <4>2. merged[j][2] \in CP!Delivered(p)
          BY <2>3, <2>11, <3>1, <4>1 DEF CP!Delivered
        <4>3. merged[j][2] < made[p]
          BY <2>2, <2>7, <4>2
        <4> QED
          BY <3>1, <4>1, <4>3
      <3> QED
        BY <2>3, <3>2, <3>3
    <2>12. \A q \in left : forward'[q] = 0
      BY <2>1, <2>4 DEF FanInInv
    <2>13. \A q \in Producers : forward'[q] # 0 => forward'[q] = made'[q]
      BY <2>1, <2>4 DEF FanInInv
    <2> QED
      BY <2>1, <2>3, <2>4, <2>10, <2>11, <2>12, <2>13 DEF FanInInv
  <1>3. ASSUME NEW p \in Producers, CP!ProducerCloses(p) \/ CP!ForwarderLeaves(p)
        PROVE  FanInInv'
    <2>1. /\ UNCHANGED <<made, forward, mergedClosed, merged>>
          /\ \/ /\ made[p] = PerSource /\ chClosed' = chClosed \union {p} /\ left' = left
             \/ /\ p \in chClosed /\ forward[p] = 0 /\ left' = left \union {p}
                /\ chClosed' = chClosed
      BY <1>3 DEF CP!ProducerCloses, CP!ForwarderLeaves
    <2>2. \A q : CP!Delivered(q)' = CP!Delivered(q) /\ Through(q)' = Through(q)
      BY <2>1 DEF CP!Delivered, Through, Held
    <2>3. mergedClosed' => left' = Producers
      BY <2>1 DEF FanInInv
    <2> QED
      BY <2>1, <2>2, <2>3 DEF FanInInv
  <1>4. CASE CP!CloseMerged
    <2>1. left = Producers /\ UNCHANGED <<made, chClosed, forward, left, merged>>
      BY <1>4 DEF CP!CloseMerged
    <2>2. \A q : CP!Delivered(q)' = CP!Delivered(q) /\ Through(q)' = Through(q)
      BY <2>1 DEF CP!Delivered, Through, Held
    <2> QED
      BY <2>1, <2>2 DEF FanInInv
  <1>5. CASE UNCHANGED CP!fanin
    <2>1. UNCHANGED <<made, chClosed, forward, left, mergedClosed, merged>>
      BY <1>5 DEF CP!fanin
    <2>2. \A q : CP!Delivered(q)' = CP!Delivered(q) /\ Through(q)' = Through(q)
      BY <2>1 DEF CP!Delivered, Through, Held
    <2> QED
      BY <2>1, <2>2 DEF FanInInv
  <1>6. CASE \/ CP!Generate \/ CP!Square \/ CP!AddTen \/ CP!StageEnds \/ CP!ChainEnds
             \/ CP!FanInEnds \/ CP!Consume \/ CP!CloseDone \/ CP!ProducerCancelled
             \/ CP!MainLeaves
    <2>1. UNCHANGED CP!fanin
      BY <1>6 DEF CP!Generate, CP!Square, CP!AddTen, CP!StageEnds, CP!ChainEnds,
                  CP!FanInEnds, CP!Consume, CP!CloseDone, CP!ProducerCancelled,
                  CP!MainLeaves
    <2> QED
      BY <1>5, <2>1
  <1>7. CASE UNCHANGED CP!vars
    BY <1>5, <1>7 DEF CP!vars
  <1> QED
    BY <1>1, <1>2, <1>3, <1>4, <1>6, <1>7 DEF CP!Next

LEMMA DoneNextInv == DoneInv /\ [CP!Next]_(CP!vars) => DoneInv'
  <1> SUFFICES ASSUME DoneInv, [CP!Next]_(CP!vars) PROVE DoneInv'
    OBVIOUS
  <1>1. CASE CP!Consume
    BY <1>1 DEF CP!Consume, DoneInv
  <1>2. CASE CP!CloseDone \/ CP!ProducerCancelled
    BY <1>2 DEF CP!CloseDone, CP!ProducerCancelled, DoneInv
  <1>3. CASE UNCHANGED CP!endless
    BY <1>3 DEF CP!endless, DoneInv
  <1>4. ASSUME NEW p \in Producers,
               CP!Produce(p) \/ CP!ProducerCloses(p) \/ CP!Merge(p) \/ CP!ForwarderLeaves(p)
        PROVE  UNCHANGED CP!endless
    BY <1>4 DEF CP!Produce, CP!ProducerCloses, CP!Merge, CP!ForwarderLeaves
  <1>5. CASE \/ CP!Generate \/ CP!Square \/ CP!AddTen \/ CP!StageEnds \/ CP!ChainEnds
             \/ CP!CloseMerged \/ CP!FanInEnds \/ CP!MainLeaves
    <2>1. UNCHANGED CP!endless
      BY <1>5 DEF CP!Generate, CP!Square, CP!AddTen, CP!StageEnds, CP!ChainEnds,
                  CP!CloseMerged, CP!FanInEnds, CP!MainLeaves, CP!endless
    <2> QED
      BY <1>3, <2>1
  <1>6. CASE UNCHANGED CP!vars
    BY <1>3, <1>6 DEF CP!vars
  <1> QED
    BY <1>1, <1>2, <1>3, <1>4, <1>5, <1>6 DEF CP!Next

LEMMA FanInInvMerges == FanInInv /\ DoneInv => CP!MergesEverySource
  <1> SUFFICES ASSUME FanInInv, DoneInv PROVE CP!MergesEverySource
    OBVIOUS
  <1>1. \A p \in Producers : CP!Delivered(p) = 1..(made[p] - IF forward[p] = 0 THEN 0 ELSE 1)
    BY DEF FanInInv, Through, Held
  <1>2. ASSUME NEW p \in Producers, mergedClosed PROVE CP!Delivered(p) = 1..PerSource
    <2>1. made[p] = PerSource /\ forward[p] = 0 /\ PerSource \in Nat
      BY <1>2, ConcurrencyAssumption DEF FanInInv
    <2> QED
      BY <1>1, <2>1
  <1>3. outClosed => counter = Wanted
    BY DEF DoneInv
  <1> QED
    BY <1>1, <1>2, <1>3 DEF FanInInv, CP!MergesEverySource

------------------------------------------------------------------------------
(* ChannelPatterns: the buffered pool                                         *)

(* Jobs that a worker has taken; the channel holds the ones behind them.      *)
Taken == next - Len(jobs)

Answered == printed \o answers

(* The jobs taken are those in a worker's hands and those answered, none of   *)
(* them twice; channels close, and workers leave, behind the last.            *)
BufferedTypeOK ==
    /\ next \in 0..NumJobs /\ jobs \in Seq(1..NumJobs) /\ Len(jobs) <= next
    /\ busy \in [Hands -> 0..NumJobs + 1]
    /\ answers \in Seq(1..NumJobs) /\ printed \in Seq(1..NumJobs)

JobsInOrder == \A i \in 1..Len(jobs) : jobs[i] = Taken + i

HandsApart ==
    /\ \A h, g \in Hands : busy[h] = busy[g] /\ busy[h] \in 1..NumJobs => h = g
    /\ \A h \in Hands, k \in 1..Len(Answered) : Answered[k] # busy[h]

AnsweredOnce == \A j, k \in 1..Len(Answered) : Answered[j] = Answered[k] => j = k

Carried(j) == \E h \in Hands : busy[h] = j

IsAnswered(j) == \E k \in 1..Len(Answered) : Answered[k] = j

TakenAccounted ==
    \A j \in 1..NumJobs : j <= Taken <=> Carried(j) \/ IsAnswered(j)

ClosedBehindAll ==
    /\ jobsShut => next = NumJobs
    /\ \A h \in Hands : busy[h] = NumJobs + 1 => jobsShut /\ jobs = <<>>
    /\ answersShut => \A h \in Hands : busy[h] = NumJobs + 1

BufferedInv == /\ BufferedTypeOK /\ JobsInOrder /\ HandsApart /\ AnsweredOnce
               /\ TakenAccounted /\ ClosedBehindAll

LEMMA AppendBehind ==
  ASSUME NEW S, NEW p \in Seq(S), NEW q \in Seq(S), NEW x \in S
  PROVE  p \o Append(q, x) = Append(p \o q, x)
  OBVIOUS

LEMMA HeadAcross ==
  ASSUME NEW S, NEW p \in Seq(S), NEW q \in Seq(S), q # <<>>
  PROVE  /\ Append(p, Head(q)) \o Tail(q) = p \o q
         /\ Append(p, Head(q)) \in Seq(S) /\ Tail(q) \in Seq(S)
  OBVIOUS

LEMMA ElementsOfSeq ==
  ASSUME NEW S, NEW p \in Seq(S)
  PROVE  Len(p) \in Nat /\ \A k \in 1..Len(p) : p[k] \in S
  OBVIOUS

LEMMA AppendedLast ==
  ASSUME NEW S, NEW p \in Seq(S), NEW x \in S
  PROVE  /\ Len(p) \in Nat /\ Len(Append(p, x)) = Len(p) + 1
         /\ Append(p, x)[Len(p) + 1] = x
         /\ \A k \in 1..Len(p) : Append(p, x)[k] = p[k]
  OBVIOUS

LEMMA BufferedTypes ==
  ASSUME BufferedTypeOK
  PROVE  /\ NumJobs \in Nat /\ next \in 0..NumJobs
         /\ jobs \in Seq(1..NumJobs) /\ Len(jobs) \in Nat /\ Len(jobs) <= next
         /\ busy \in [Hands -> 0..NumJobs + 1]
         /\ answers \in Seq(1..NumJobs) /\ printed \in Seq(1..NumJobs)
         /\ Answered \in Seq(1..NumJobs) /\ Len(Answered) \in Nat
         /\ Taken \in 0..NumJobs
         /\ \A k \in 1..Len(Answered) : Answered[k] \in 1..NumJobs
  <1>1. /\ NumJobs \in Nat /\ next \in 0..NumJobs
        /\ jobs \in Seq(1..NumJobs) /\ Len(jobs) \in Nat /\ Len(jobs) <= next
        /\ busy \in [Hands -> 0..NumJobs + 1]
        /\ answers \in Seq(1..NumJobs) /\ printed \in Seq(1..NumJobs)
    BY ConcurrencyAssumption DEF BufferedTypeOK
  <1>2. Answered \in Seq(1..NumJobs)
    BY <1>1 DEF Answered
  <1>3. Taken \in 0..NumJobs
    BY <1>1 DEF Taken
  <1>4. Len(Answered) \in Nat /\ \A k \in 1..Len(Answered) : Answered[k] \in 1..NumJobs
    BY <1>2, ElementsOfSeq
  <1> QED
    BY <1>1, <1>2, <1>3, <1>4

LEMMA SendJobInv == BufferedInv /\ CP!SendJob => BufferedInv'
  <1> SUFFICES ASSUME BufferedInv, CP!SendJob PROVE BufferedInv'
    OBVIOUS
  <1>0. BufferedTypeOK
    BY DEF BufferedInv
  <1>1. /\ next < NumJobs /\ jobs' = Append(jobs, next + 1) /\ next' = next + 1
        /\ UNCHANGED <<jobsShut, busy, answers, answersShut, printed>>
    BY DEF CP!SendJob
  <1>2. /\ next' \in 0..NumJobs /\ next + 1 \in 1..NumJobs /\ jobs' \in Seq(1..NumJobs)
        /\ Len(jobs') = Len(jobs) + 1 /\ jobs'[Len(jobs) + 1] = next + 1
        /\ \A i \in 1..Len(jobs) : jobs'[i] = jobs[i]
    BY <1>0, <1>1, BufferedTypes
  <1>3. Taken' = Taken
    BY <1>0, <1>1, <1>2, BufferedTypes DEF Taken
  <1>4. Answered' = Answered
    BY <1>1 DEF Answered
  <1>5. JobsInOrder'
    <2> SUFFICES ASSUME NEW i \in 1..Len(jobs') PROVE jobs'[i] = Taken' + i
      BY DEF JobsInOrder
    <2>1. CASE i = Len(jobs) + 1
      <3>1. Taken + i = next + 1
        BY <1>0, <2>1, BufferedTypes DEF Taken
      <3> QED
        BY <1>2, <1>3, <2>1, <3>1
    <2>2. CASE i # Len(jobs) + 1
      <3>1. i \in 1..Len(jobs)
        BY <1>0, <1>2, <2>2, BufferedTypes
      <3> QED
        BY <1>2, <1>3, <3>1 DEF BufferedInv, JobsInOrder
    <2> QED
      BY <2>1, <2>2
  <1>6. BufferedTypeOK'
    <2>1. Len(jobs') <= next'
      BY <1>0, <1>1, <1>2, BufferedTypes
    <2> QED
      BY <1>0, <1>1, <1>2, <2>1 DEF BufferedTypeOK
  <1>7. HandsApart' /\ AnsweredOnce' /\ TakenAccounted'
    BY <1>1, <1>3, <1>4
    DEF BufferedInv, HandsApart, AnsweredOnce, TakenAccounted, Carried, IsAnswered
  <1>8. ClosedBehindAll'
    <2>1. ~jobsShut
      BY <1>0, <1>1, BufferedTypes DEF BufferedInv, ClosedBehindAll
    <2> QED
      BY <1>1, <2>1 DEF BufferedInv, ClosedBehindAll
  <1> QED
    BY <1>5, <1>6, <1>7, <1>8 DEF BufferedInv

LEMMA ReceiveInv == ASSUME BufferedInv, NEW h \in Hands, CP!Receive(h) PROVE BufferedInv'
  <1>0. BufferedTypeOK
    BY DEF BufferedInv
  <1>1. /\ busy[h] = 0 /\ jobs # <<>> /\ busy' = [busy EXCEPT ![h] = Head(jobs)]
        /\ jobs' = Tail(jobs)
        /\ UNCHANGED <<jobsShut, next, answers, answersShut, printed>>
    BY DEF CP!Receive
  <1>2. /\ Len(jobs) >= 1 /\ jobs' \in Seq(1..NumJobs) /\ Len(jobs') = Len(jobs) - 1
        /\ Head(jobs) = jobs[1] /\ Head(jobs) \in 1..NumJobs
        /\ \A i \in 1..Len(jobs') : jobs'[i] = jobs[i + 1] /\ i + 1 \in 1..Len(jobs)
    BY <1>0, <1>1, BufferedTypes
  <1>3. Head(jobs) = Taken + 1
    <2>1. 1 \in 1..Len(jobs)
      BY <1>0, <1>2, BufferedTypes
    <2> QED
      BY <1>2, <2>1 DEF BufferedInv, JobsInOrder
  <1>4. Taken' = Taken + 1
    BY <1>0, <1>1, <1>2, BufferedTypes DEF Taken
  <1>5. Answered' = Answered
    BY <1>1 DEF Answered
  <1>6. /\ busy'[h] = Taken + 1 /\ busy' \in [Hands -> 0..NumJobs + 1]
        /\ \A g \in Hands : g # h => busy'[g] = busy[g]
    BY <1>0, <1>1, <1>2, <1>3, BufferedTypes
  <1>7. /\ \A g \in Hands : busy[g] # Taken + 1
        /\ \A k \in 1..Len(Answered) : Answered[k] # Taken + 1
    <2>1. Taken + 1 \in 1..NumJobs /\ ~(Taken + 1 <= Taken)
      BY <1>0, <1>2, <1>3, BufferedTypes
    <2>2. ~Carried(Taken + 1) /\ ~IsAnswered(Taken + 1)
      BY <2>1 DEF BufferedInv, TakenAccounted
    <2> QED
      BY <2>2 DEF Carried, IsAnswered
  <1>8. JobsInOrder'
    <2> SUFFICES ASSUME NEW i \in 1..Len(jobs') PROVE jobs'[i] = Taken' + i
      BY DEF JobsInOrder
    <2>1. jobs'[i] = Taken + (i + 1)
      BY <1>2 DEF BufferedInv, JobsInOrder
    <2>2. i \in Nat /\ Taken \in Nat
      BY <1>0, BufferedTypes
    <2> QED
      BY <1>4, <2>1, <2>2
  <1>9. BufferedTypeOK'
    <2>1. Len(jobs') <= next'
      BY <1>0, <1>1, <1>2, BufferedTypes
    <2> QED
      BY <1>0, <1>1, <1>2, <1>6, <2>1 DEF BufferedTypeOK
  <1>10. HandsApart'
    <2>1. ASSUME NEW f \in Hands, NEW g \in Hands, busy'[f] = busy'[g],
                 busy'[f] \in 1..NumJobs
          PROVE  f = g
      BY <1>6, <1>7, <2>1 DEF BufferedInv, HandsApart
    <2>2. ASSUME NEW g \in Hands, NEW k \in 1..Len(Answered) PROVE Answered[k] # busy'[g]
      BY <1>6, <1>7 DEF BufferedInv, HandsApart
    <2> QED
      BY <1>5, <2>1, <2>2 DEF HandsApart
  <1>11. AnsweredOnce'
    BY <1>5 DEF BufferedInv, AnsweredOnce
  <1>12. TakenAccounted'
    <2> SUFFICES ASSUME NEW j \in 1..NumJobs
                 PROVE  j <= Taken + 1 <=> Carried(j)' \/ IsAnswered(j)'
      BY <1>4 DEF TakenAccounted
    <2>1. Carried(j)' <=> Carried(j) \/ j = Taken + 1
      <3>1. busy[h] # j
        BY <1>1
      <3> QED
        BY <1>6, <3>1 DEF Carried
    <2>2. IsAnswered(j)' <=> IsAnswered(j)
      BY <1>5 DEF IsAnswered
    <2>3. j <= Taken + 1 <=> j <= Taken \/ j = Taken + 1
      BY <1>0, BufferedTypes
    <2> QED
      BY <2>1, <2>2, <2>3 DEF BufferedInv, TakenAccounted
  <1>13. ClosedBehindAll'
    <2>1. \A g \in Hands : busy[g] # NumJobs + 1
      BY <1>1 DEF BufferedInv, ClosedBehindAll
    <2>2. busy'[h] # NumJobs + 1
      BY <1>0, <1>2, <1>3, <1>6, BufferedTypes
    <2>3. ~answersShut
      BY <2>1 DEF BufferedInv, ClosedBehindAll
    <2> QED
      BY <1>1, <1>6, <2>1, <2>2, <2>3 DEF BufferedInv, ClosedBehindAll
  <1> QED
    BY <1>8, <1>9, <1>10, <1>11, <1>12, <1>13 DEF BufferedInv

LEMMA AnswerInv == ASSUME BufferedInv, NEW h \in Hands, CP!Answer(h) PROVE BufferedInv'
  <1> DEFINE n == Len(Answered)
  <1>0. BufferedTypeOK
    BY DEF BufferedInv
  <1>1. /\ busy[h] \in 1..NumJobs /\ answers' = Append(answers, busy[h])
        /\ busy' = [busy EXCEPT ![h] = 0]
        /\ UNCHANGED <<jobs, jobsShut, next, answersShut, printed>>
    BY DEF CP!Answer
  <1>2. Answered' = Append(Answered, busy[h]) /\ answers' \in Seq(1..NumJobs)
    <2>1. printed \o Append(answers, busy[h]) = Append(printed \o answers, busy[h])
      <3>1. /\ printed \in Seq(1..NumJobs) /\ answers \in Seq(1..NumJobs)
            /\ busy[h] \in 1..NumJobs
        BY <1>0, <1>1, BufferedTypes
      <3> DEFINE J == 1..NumJobs
      <3>2. printed \in Seq(J) /\ answers \in Seq(J) /\ busy[h] \in J
        BY <3>1
      <3> HIDE DEF J
      <3> QED
        BY <3>2, AppendBehind
    <2> QED
      BY <1>0, <1>1, <2>1, BufferedTypes DEF Answered
  <1>3. /\ n \in Nat /\ Len(Answered') = n + 1 /\ Answered'[n + 1] = busy[h]
        /\ \A k \in 1..n : Answered'[k] = Answered[k] /\ k \in 1..n + 1
        /\ \A k \in 1..n + 1 : k \in 1..n \/ k = n + 1
        /\ n + 1 \in 1..n + 1
    <2>1. Answered \in Seq(1..NumJobs) /\ busy[h] \in 1..NumJobs
      BY <1>0, <1>1, BufferedTypes
    <2>2. /\ n \in Nat /\ Len(Answered') = n + 1 /\ Answered'[n + 1] = busy[h]
          /\ \A k \in 1..n : Answered'[k] = Answered[k]
      BY <1>2, <2>1, AppendedLast
    <2>3. /\ \A k \in 1..n : k \in 1..n + 1
          /\ \A k \in 1..n + 1 : k \in 1..n \/ k = n + 1
          /\ n + 1 \in 1..n + 1
      BY <2>2
    <2> QED
      BY <2>2, <2>3
  <1>4. /\ busy'[h] = 0 /\ busy' \in [Hands -> 0..NumJobs + 1]
        /\ \A g \in Hands : g # h => busy'[g] = busy[g]
    BY <1>0, <1>1, BufferedTypes
  <1>5. Taken' = Taken
    BY <1>1 DEF Taken
  <1>6. \A k \in 1..n : Answered[k] # busy[h] /\ Answered[k] # 0
    BY <1>0, BufferedTypes DEF BufferedInv, HandsApart
  <1>7. AnsweredOnce'
    <2> SUFFICES ASSUME NEW j \in 1..n + 1, NEW k \in 1..n + 1, Answered'[j] = Answered'[k]
                 PROVE  j = k
      BY <1>3 DEF AnsweredOnce
    <2> QED
      BY <1>3, <1>6 DEF BufferedInv, AnsweredOnce
  <1>8. HandsApart'
    <2>1. ASSUME NEW f \in Hands, NEW g \in Hands, busy'[f] = busy'[g],
                 busy'[f] \in 1..NumJobs
          PROVE  f = g
      <3>1. f # h /\ g # h
        BY <1>4, <2>1
      <3> QED
        BY <1>4, <2>1, <3>1 DEF BufferedInv, HandsApart
    <2>2. ASSUME NEW g \in Hands, NEW k \in 1..n + 1 PROVE Answered'[k] # busy'[g]
      <3>1. CASE g = h
        <4>1. busy[h] # 0
          BY <1>1
        <4> QED
          BY <1>3, <1>4, <1>6, <3>1, <4>1
      <3>2. CASE g # h
        <4>1. busy'[g] = busy[g] /\ busy[g] # busy[h]
          BY <1>1, <1>4, <3>2 DEF BufferedInv, HandsApart
        <4>2. k \in 1..n => Answered[k] # busy[g]
          BY DEF BufferedInv, HandsApart
        <4> QED
          BY <1>3, <4>1, <4>2
      <3> QED
        BY <3>1, <3>2
    <2> QED
      BY <1>3, <2>1, <2>2 DEF HandsApart
  <1>9. TakenAccounted'
    <2> SUFFICES ASSUME NEW j \in 1..NumJobs
                 PROVE  j <= Taken <=> Carried(j)' \/ IsAnswered(j)'
      BY <1>5 DEF TakenAccounted
    <2>1. Carried(j) <=> Carried(j)' \/ j = busy[h]
      <3>1. j # 0
        OBVIOUS
      <3> QED
        BY <1>4, <3>1 DEF Carried
    <2>2. IsAnswered(j)' <=> IsAnswered(j) \/ j = busy[h]
      BY <1>3 DEF IsAnswered
    <2> QED
      BY <2>1, <2>2 DEF BufferedInv, TakenAccounted
  <1>10. ClosedBehindAll'
    <2>1. busy'[h] # NumJobs + 1 /\ busy[h] # NumJobs + 1
      BY <1>0, <1>1, <1>4, BufferedTypes
    <2> QED
      BY <1>1, <1>4, <2>1 DEF BufferedInv, ClosedBehindAll
  <1>11. JobsInOrder' /\ BufferedTypeOK'
    BY <1>0, <1>1, <1>2, <1>4, <1>5 DEF BufferedInv, JobsInOrder, BufferedTypeOK
  <1> QED
    BY <1>7, <1>8, <1>9, <1>10, <1>11 DEF BufferedInv

LEMMA LeavesInv == ASSUME BufferedInv, NEW h \in Hands, CP!Leaves(h) PROVE BufferedInv'
  <1>0. BufferedTypeOK
    BY DEF BufferedInv
  <1>1. /\ busy[h] = 0 /\ jobs = <<>> /\ jobsShut
        /\ busy' = [busy EXCEPT ![h] = NumJobs + 1]
        /\ UNCHANGED <<jobs, jobsShut, next, answers, answersShut, printed>>
    BY DEF CP!Leaves, CP!Gone
  <1>2. /\ busy'[h] = NumJobs + 1 /\ busy' \in [Hands -> 0..NumJobs + 1]
        /\ \A g \in Hands : g # h => busy'[g] = busy[g]
        /\ NumJobs + 1 \notin 1..NumJobs
    BY <1>0, <1>1, BufferedTypes
  <1>3. Taken' = Taken /\ Answered' = Answered
    BY <1>1 DEF Taken, Answered
  <1>4. HandsApart'
    <2>1. ASSUME NEW f \in Hands, NEW g \in Hands, busy'[f] = busy'[g],
                 busy'[f] \in 1..NumJobs
          PROVE  f = g
      BY <1>2, <2>1 DEF BufferedInv, HandsApart
    <2>2. ASSUME NEW g \in Hands, NEW k \in 1..Len(Answered) PROVE Answered[k] # busy'[g]
      BY <1>0, <1>2, BufferedTypes DEF BufferedInv, HandsApart
    <2> QED
      BY <1>3, <2>1, <2>2 DEF HandsApart
  <1>5. TakenAccounted'
    <2> SUFFICES ASSUME NEW j \in 1..NumJobs PROVE Carried(j)' <=> Carried(j)
      BY <1>3 DEF BufferedInv, TakenAccounted, IsAnswered
    <2>1. j # 0 /\ j # NumJobs + 1
      BY <1>2
    <2> QED
      BY <1>1, <1>2, <2>1 DEF Carried
  <1>6. ClosedBehindAll'
    BY <1>1, <1>2 DEF BufferedInv, ClosedBehindAll
  <1>7. JobsInOrder' /\ AnsweredOnce' /\ BufferedTypeOK'
    BY <1>0, <1>1, <1>2, <1>3
    DEF BufferedInv, JobsInOrder, AnsweredOnce, BufferedTypeOK
  <1> QED
    BY <1>4, <1>5, <1>6, <1>7 DEF BufferedInv

LEMMA BufferedNextInv == BufferedInv /\ [CP!BufferedNext]_(CP!bufferedVars) => BufferedInv'
  <1> SUFFICES ASSUME BufferedInv, [CP!BufferedNext]_(CP!bufferedVars) PROVE BufferedInv'
    OBVIOUS
  <1>0. BufferedTypeOK
    BY DEF BufferedInv
  <1> USE DEF JobsInOrder, HandsApart, AnsweredOnce, TakenAccounted, Carried, IsAnswered
  <1>1. CASE CP!CloseJobs \/ CP!CloseAnswers
    <2>1. UNCHANGED <<jobs, next, busy, answers, printed>>
      BY <1>1 DEF CP!CloseJobs, CP!CloseAnswers
    <2>2. Taken' = Taken /\ Answered' = Answered
      BY <2>1 DEF Taken, Answered
    <2>3. ClosedBehindAll'
      BY <1>1, <2>1 DEF BufferedInv, ClosedBehindAll, CP!CloseJobs, CP!CloseAnswers, CP!Gone
    <2> QED
      BY <2>1, <2>2, <2>3 DEF BufferedInv, BufferedTypeOK
  <1>2. CASE CP!Show
    <2>1. /\ answers # <<>> /\ printed' = Append(printed, Head(answers))
          /\ answers' = Tail(answers)
          /\ UNCHANGED <<jobs, jobsShut, next, busy, answersShut>>
      BY <1>2 DEF CP!Show
    <2>2. /\ Append(printed, Head(answers)) \o Tail(answers) = printed \o answers
          /\ Append(printed, Head(answers)) \in Seq(1..NumJobs)
          /\ Tail(answers) \in Seq(1..NumJobs)
      <3>1. answers \in Seq(1..NumJobs) /\ printed \in Seq(1..NumJobs)
        BY <1>0, BufferedTypes
      <3> QED
        BY <2>1, <3>1, HeadAcross
    <2>3. Taken' = Taken /\ Answered' = Answered
      BY <2>1, <2>2 DEF Taken, Answered
    <2> QED
      BY <2>1, <2>2, <2>3 DEF BufferedInv, BufferedTypeOK, ClosedBehindAll
  <1>3. CASE UNCHANGED CP!bufferedVars
    <2>1. UNCHANGED <<jobs, jobsShut, next, busy, answers, answersShut, printed>>
      BY <1>3 DEF CP!bufferedVars
    <2>2. Taken' = Taken /\ Answered' = Answered
      BY <2>1 DEF Taken, Answered
    <2> QED
      BY <2>1, <2>2 DEF BufferedInv, BufferedTypeOK, ClosedBehindAll
  <1> QED
    BY <1>1, <1>2, <1>3, SendJobInv, ReceiveInv, AnswerInv, LeavesInv DEF CP!BufferedNext

LEMMA BufferedInitInv == CP!BufferedInit => BufferedInv
  <1> SUFFICES ASSUME CP!BufferedInit PROVE BufferedInv
    OBVIOUS
  <1>1. /\ jobs = <<>> /\ next = 0 /\ busy = [h \in Hands |-> 0]
        /\ answers = <<>> /\ printed = <<>> /\ ~jobsShut /\ ~answersShut
        /\ NumJobs \in Nat
    BY ConcurrencyAssumption DEF CP!BufferedInit
  <1>2. Len(jobs) = 0 /\ printed \o answers = <<>>
    BY <1>1
  <1>3. Taken = 0 /\ Answered = <<>> /\ Len(Answered) = 0
    <2>1. Taken = 0
      <3>1. next = 0 /\ Len(jobs) = 0
        BY <1>1, <1>2
      <3>2. 0 - 0 = 0
        OBVIOUS
      <3>3. next - Len(jobs) = 0
        BY <3>1, <3>2, Zenon
      <3> QED
        BY <3>3 DEF Taken
    <2>2. Answered = <<>>
      BY <1>2 DEF Answered
    <2>3. Len(Answered) = 0
      BY <2>2
    <2> QED
      BY <2>1, <2>2, <2>3
  <1>4. busy \in [Hands -> 0..NumJobs + 1] /\ \A h \in Hands : busy[h] = 0
    BY <1>1
  <1>5. BufferedTypeOK
    BY <1>1, <1>2, <1>4 DEF BufferedTypeOK
  <1>6. TakenAccounted
    BY <1>1, <1>3, <1>4 DEF TakenAccounted, Carried, IsAnswered
  <1>7. JobsInOrder /\ HandsApart /\ AnsweredOnce /\ ClosedBehindAll
    BY <1>1, <1>2, <1>3, <1>4 DEF JobsInOrder, HandsApart, AnsweredOnce, ClosedBehindAll
  <1> QED
    BY <1>5, <1>6, <1>7 DEF BufferedInv

LEMMA BufferedInvAnswers == BufferedInv => CP!AnswersEveryJob
  <1> SUFFICES ASSUME BufferedInv PROVE CP!AnswersEveryJob
    OBVIOUS
  <1>0. BufferedTypeOK
    BY DEF BufferedInv
  <1>1. CP!IsInjective(printed \o answers)
    <2>1. DOMAIN Answered = 1..Len(Answered)
      BY <1>0, BufferedTypes
    <2>2. CP!IsInjective(Answered)
      BY <2>1 DEF BufferedInv, AnsweredOnce, CP!IsInjective
    <2> QED
      BY <2>2 DEF Answered
  <1>2. ASSUME CP!Over PROVE CP!ToSet(printed) = 1..NumJobs
    <2>1. answersShut /\ answers = <<>>
      BY <1>2 DEF CP!Over
    <2>2. PICK h \in Hands : TRUE
      BY ConcurrencyAssumption
    <2>3. \A g \in Hands : busy[g] = NumJobs + 1
      BY <2>1 DEF BufferedInv, ClosedBehindAll
    <2>4. Taken = NumJobs
      <3>1. jobs = <<>> /\ next = NumJobs
        BY <2>2, <2>3 DEF BufferedInv, ClosedBehindAll
      <3> QED
        BY <1>0, <3>1, BufferedTypes DEF Taken
    <2>5. Answered = printed
      BY <1>0, <2>1, BufferedTypes DEF Answered
    <2>6. \A j \in 1..NumJobs : \E k \in 1..Len(printed) : printed[k] = j
      <3> TAKE j \in 1..NumJobs
      <3>1. j <= Taken /\ j # NumJobs + 1
        BY <1>0, <2>4, BufferedTypes
      <3>2. ~Carried(j)
        BY <2>3, <3>1 DEF Carried
      <3>3. IsAnswered(j)
        BY <3>1, <3>2 DEF BufferedInv, TakenAccounted
      <3> QED
        BY <2>5, <3>3 DEF IsAnswered
    <2>7. DOMAIN printed = 1..Len(printed) /\ \A k \in 1..Len(printed) : printed[k] \in 1..NumJobs
      BY <1>0, BufferedTypes
    <2> QED
      BY <2>6, <2>7 DEF CP!ToSet
  <1> QED
    BY <1>1, <1>2 DEF CP!AnswersEveryJob

(* Any numbers, producers, hands and jobs: the chain delivers every number in *)
(* order, fanIn every message of every source in the source's order before    *)
(* merged is closed, the pool every job's answer once and all of them before  *)
(* main's range ends.                                                         *)
THEOREM PatternsDeliver == CP!Spec /\ CP!BufferedSpec => []ChannelsDeliver
  <1>1. CP!Init => ChainInv /\ FanInInv /\ DoneInv
    <2> SUFFICES ASSUME CP!Init PROVE ChainInv /\ FanInInv /\ DoneInv
      OBVIOUS
    <2> USE ConcurrencyAssumption DEF CP!Init
    <2>1. ChainInv
      BY DEF ChainInv, Held
    <2>2. \A p \in Producers : CP!Delivered(p) = {} /\ Through(p) = 0
      BY DEF CP!Delivered, Through, Held
    <2>3. FanInInv
      <3>1. /\ merged \in Seq(Producers \X Nat) /\ DOMAIN merged = {}
            /\ made \in [Producers -> 0..PerSource] /\ forward \in [Producers -> 0..PerSource]
        OBVIOUS
      <3>2. \A p \in Producers : forward[p] = 0 /\ CP!Delivered(p) = 1..Through(p)
        <4>1. \A p \in Producers : forward[p] = 0
          OBVIOUS
        <4>2. 1..0 = {}
          OBVIOUS
        <4> HIDE ConcurrencyAssumption DEF CP!Init
        <4> QED
          BY <2>2, <4>1, <4>2
      <3>3. chClosed = {} /\ left = {} /\ ~mergedClosed
        OBVIOUS
      <3> HIDE ConcurrencyAssumption DEF CP!Init
      <3> QED
        BY <3>1, <3>2, <3>3 DEF FanInInv
    <2>4. DoneInv
      BY DEF DoneInv
    <2> QED
      BY <2>1, <2>3, <2>4
  <1>2. CP!Spec => [](ChainInv /\ FanInInv /\ DoneInv)
    BY <1>1, ChainNextInv, FanInNextInv, DoneNextInv, PTL DEF CP!Spec
  <1>3. CP!BufferedSpec => []BufferedInv
    BY BufferedInitInv, BufferedNextInv, PTL DEF CP!BufferedSpec
  <1>4. ChainInv /\ FanInInv /\ DoneInv /\ BufferedInv => ChannelsDeliver
    BY ChainInvDelivers, FanInInvMerges, BufferedInvAnswers DEF ChannelsDeliver
  <1> QED
    BY <1>2, <1>3, <1>4, PTL


------------------------------------------------------------------------------
(* Concurrency: the programs side by side                                     *)

LEMMA ProgramsBegin ==
  ConcurrencyInit => /\ Init /\ PL!Init /\ RB!Init /\ CP!Init /\ CP!BufferedInit
                     /\ RT!Init /\ RT!HTTPInit /\ SH!Init /\ CS!ContextInit /\ CS!SelectInit
  BY DEF ConcurrencyInit

(* A step of one program changes nothing of the others.                       *)
LEMMA ProgramsApart ==
  [ConcurrencyNext]_allVars =>
     /\ [Next]_vars /\ [PL!Next]_(PL!vars) /\ [RB!Next]_(RB!vars) /\ [CP!Next]_(CP!vars)
     /\ [CP!BufferedNext]_(CP!bufferedVars) /\ [RT!Next]_(RT!vars)
     /\ [RT!HTTPNext]_(RT!httpVars) /\ [SH!Next]_(SH!vars)
     /\ [CS!ContextNext]_(CS!contextVars) /\ [CS!SelectNext]_(CS!selectVars)
  <1>1. /\ UNCHANGED pipelineVars => UNCHANGED PL!vars
        /\ UNCHANGED boundedVars => UNCHANGED RB!vars
    BY DEF pipelineVars, PL!vars, PL!crew, PL!results, boundedVars, RB!vars
  <1>2. /\ UNCHANGED patternsVars => UNCHANGED CP!vars
        /\ UNCHANGED bufferedVars => UNCHANGED CP!bufferedVars
    BY DEF patternsVars, bufferedVars, CP!vars, CP!chain, CP!fanin, CP!endless, CP!bufferedVars
  <1>3. /\ UNCHANGED retryVars => UNCHANGED RT!vars
        /\ UNCHANGED httpVars => UNCHANGED RT!httpVars
    BY DEF retryVars, httpVars, RT!vars, RT!httpVars
  <1>4. /\ UNCHANGED sharedVars => UNCHANGED SH!vars
        /\ UNCHANGED contextsVars => UNCHANGED CS!contextVars
        /\ UNCHANGED selectVars => UNCHANGED CS!selectVars
    BY DEF sharedVars, contextsVars, selectVars, SH!vars, SH!counters, SH!config,
           CS!contextVars, CS!selectVars
  <1> SUFFICES ASSUME [ConcurrencyNext]_allVars
               PROVE  /\ [Next]_vars /\ [PL!Next]_(PL!vars) /\ [RB!Next]_(RB!vars)
                      /\ [CP!Next]_(CP!vars) /\ [CP!BufferedNext]_(CP!bufferedVars)
                      /\ [RT!Next]_(RT!vars) /\ [RT!HTTPNext]_(RT!httpVars)
                      /\ [SH!Next]_(SH!vars) /\ [CS!ContextNext]_(CS!contextVars)
                      /\ [CS!SelectNext]_(CS!selectVars)
    OBVIOUS
  <1>5. \/ UNCHANGED allVars \/ PoolStep \/ PipelineStep \/ BoundedStep \/ PatternsStep
        \/ BufferedStep \/ RetryStep \/ HttpStep \/ SharedStep \/ ContextsStep \/ SelectStep
    BY DEF ConcurrencyNext
  <1>6. CASE UNCHANGED allVars
    BY <1>1, <1>2, <1>3, <1>4, <1>6 DEF allVars
  <1>7. CASE PoolStep
    BY <1>1, <1>2, <1>3, <1>4, <1>7 DEF PoolStep
  <1>8. CASE PipelineStep
    BY <1>1, <1>2, <1>3, <1>4, <1>8 DEF PipelineStep
  <1>9. CASE BoundedStep
    BY <1>1, <1>2, <1>3, <1>4, <1>9 DEF BoundedStep
  <1>10. CASE PatternsStep
    BY <1>1, <1>2, <1>3, <1>4, <1>10 DEF PatternsStep
  <1>11. CASE BufferedStep
    BY <1>1, <1>2, <1>3, <1>4, <1>11 DEF BufferedStep
  <1>12. CASE RetryStep
    BY <1>1, <1>2, <1>3, <1>4, <1>12 DEF RetryStep
  <1>13. CASE HttpStep
    BY <1>1, <1>2, <1>3, <1>4, <1>13 DEF HttpStep
  <1>14. CASE SharedStep
    BY <1>1, <1>2, <1>3, <1>4, <1>14 DEF SharedStep
  <1>15. CASE ContextsStep
    BY <1>1, <1>2, <1>3, <1>4, <1>15 DEF ContextsStep
  <1>16. CASE SelectStep
    BY <1>1, <1>2, <1>3, <1>4, <1>16 DEF SelectStep
  <1> QED
    BY <1>5, <1>6, <1>7, <1>8, <1>9, <1>10, <1>11, <1>12, <1>13, <1>14, <1>15, <1>16

(* What the run checks of the composition, for all constants at once.         *)
THEOREM ProgramsKeepTheirPromises ==
  ConcurrencySpec => [](/\ PoolInv /\ PipelineAccounts /\ BoundedAndWaitedFor
                        /\ ChannelsDeliver /\ RetriesKeepSchedule /\ SharedWithoutHarm)
  <1>1. ConcurrencyInit /\ [][ConcurrencyNext]_allVars =>
           /\ Spec /\ PL!Spec /\ RB!Spec /\ CP!Spec /\ CP!BufferedSpec /\ RT!Spec
           /\ RT!HTTPSpec /\ SH!Spec /\ CS!ContextSpec /\ CS!SelectSpec
    BY ProgramsBegin, ProgramsApart, PTL
       DEF Spec, PL!Spec, RB!Spec, CP!Spec, CP!BufferedSpec, RT!Spec, RT!HTTPSpec, SH!Spec,
           CS!ContextSpec, CS!SelectSpec
  <1> QED
    BY <1>1, KeepsPoolInv, PipelineLosesNothing, TasksBoundedAndWaitedFor, PatternsDeliver,
       WaitsAreScheduled, NoHarmInSharing, PTL DEF ConcurrencySpec
==============================================================================
