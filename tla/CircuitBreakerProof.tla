------------------------- MODULE CircuitBreakerProof -------------------------
(***************************************************************************)
(* Proofs about CircuitBreaker for any set of callers and any threshold,   *)
(* halfOpenMax, reset timeout and failure bound.                           *)
(***************************************************************************)
EXTENDS CircuitBreaker, TLAPS

(* The conjuncts of BreakerInv are mutually inductive:                     *)
(* FailuresAreConsecutive survives a late trial's success only because     *)
(* LateTrialsCountAsSuccess makes it clear the failures, and that one      *)
(* starts from HalfOpenUnfinished's count.                                 *)

LEMMA InitBreakerInv == Init => BreakerInv
  BY BreakerAssumption
     DEF Init, BreakerInv, TypeOK, State, ClosedBelowThreshold, HalfOpenUnfinished,
         FailuresAreConsecutive, LateTrialsCountAsSuccess

LEMMA NextBreakerInv == BreakerInv /\ [Next]_vars => BreakerInv'
  <1> SUFFICES ASSUME BreakerInv, [Next]_vars PROVE BreakerInv'
    OBVIOUS
  <1> USE BreakerAssumption
       DEF BreakerInv, TypeOK, State, ClosedBelowThreshold, HalfOpenUnfinished,
           FailuresAreConsecutive, LateTrialsCountAsSuccess, breaker
  <1>1. ASSUME NEW c \in Callers, Reject(c) PROVE BreakerInv'
    BY <1>1 DEF Reject, CooldownOver
  <1>2. ASSUME NEW c \in Callers, Probe(c) PROVE BreakerInv'
    BY <1>2 DEF Probe
  <1>3. ASSUME NEW c \in Callers, Admit(c) PROVE BreakerInv'
    BY <1>3 DEF Admit
  <1>4. ASSUME NEW c \in Callers, Fail(c) PROVE BreakerInv'
    BY <1>4 DEF Fail, Trips
  <1>5. ASSUME NEW c \in Callers, TrialSuccess(c) PROVE BreakerInv'
    BY <1>5 DEF TrialSuccess, Recovers
  <1>6. ASSUME NEW c \in Callers, NormalSuccess(c) PROVE BreakerInv'
    BY <1>6 DEF NormalSuccess
  <1>7. CASE Tick
    BY <1>7 DEF Tick
  <1>8. CASE ServiceFlips
    BY <1>8 DEF ServiceFlips
  <1>9. CASE UNCHANGED vars
    BY <1>9 DEF vars
  <1>10. QED
    BY <1>1, <1>2, <1>3, <1>4, <1>5, <1>6, <1>7, <1>8, <1>9
       DEF Next, Begin, Return

(* The breaker's invariant, its five conjuncts together.                   *)
THEOREM KeepsBreakerInv == Spec => []BreakerInv
  BY InitBreakerInv, NextBreakerInv, PTL DEF Spec

-----------------------------------------------------------------------------
(* Every value of every variable, in particular that no call runs with a   *)
(* captured state of Open.                                                 *)
THEOREM TypeCorrect == Spec => []TypeOK
  BY KeepsBreakerInv, PTL DEF BreakerInv

(* A closed breaker is below its threshold.                                *)
THEOREM BelowThreshold == Spec => []ClosedBelowThreshold
  BY KeepsBreakerInv, PTL DEF BreakerInv

(* A half-open breaker still lacks a success.                              *)
THEOREM NotStuckHalfOpen == Spec => []HalfOpenUnfinished
  BY KeepsBreakerInv, PTL DEF BreakerInv

(* The counter of a closed breaker is the number of consecutive errors.    *)
THEOREM CountsConsecutiveFailures == Spec => []FailuresAreConsecutive
  BY KeepsBreakerInv, PTL DEF BreakerInv

(* A trial that outlives its half-open period clears the failures.         *)
THEOREM LateTrialsClear == Spec => []LateTrialsCountAsSuccess
  BY KeepsBreakerInv, PTL DEF BreakerInv

(* A closed breaker trips for threshold consecutive errors or for a trial. *)
THEOREM TripsForAReason == Spec => TripIsJustified
  <1> DEFINE Why == \/ streak' >= Threshold
                    \/ \E c \in Callers : /\ pc[c] = "calling" /\ pc'[c] = "idle"
                                         /\ seen[c] = "HalfOpen"
  <1>1. BreakerInv /\ [Next]_vars
          => [state = "Closed" /\ state' = "Open" => Why]_vars
    <2> SUFFICES ASSUME BreakerInv, Next, state = "Closed", state' = "Open" PROVE Why
      OBVIOUS
    <2>1. PICK c \in Callers : Fail(c)
      BY DEF Next, Begin, Return, Reject, Probe, Admit, Fail, TrialSuccess,
             NormalSuccess, Tick, ServiceFlips, breaker
    <2>2. CASE seen[c] = "HalfOpen"
      BY <2>1, <2>2 DEF Fail, BreakerInv, TypeOK
    <2>3. CASE seen[c] # "HalfOpen"
      BY <2>1, <2>3 DEF Fail, Trips, BreakerInv, TypeOK, FailuresAreConsecutive
    <2> QED
      BY <2>2, <2>3
  <1> QED
    BY <1>1, KeepsBreakerInv, PTL DEF Spec, TripIsJustified

-----------------------------------------------------------------------------
(* With at most one caller the state that Execute captured is still the    *)
(* breaker's state when fn() returns.                                      *)
CapturedIsCurrent == \A c \in Callers : pc[c] = "calling" => seen[c] = state

LEMMA CapturedStaysCurrent ==
  ASSUME \A c, d \in Callers : c = d
  PROVE  Spec => []CapturedIsCurrent
  <1>1. Init => CapturedIsCurrent
    BY DEF Init, CapturedIsCurrent
  <1>2. CapturedIsCurrent /\ BreakerInv /\ [Next]_vars => CapturedIsCurrent'
    BY DEF CapturedIsCurrent, BreakerInv, TypeOK, Next, vars, Begin, Return, Reject,
           Probe, Admit, Fail, Trips, TrialSuccess, NormalSuccess, Tick,
           ServiceFlips, breaker
  <1> QED
    BY <1>1, <1>2, KeepsBreakerInv, PTL DEF Spec

(* One caller at a time makes Execute the documented three-mode protocol;  *)
(* the failure bound and the service's behaviour play no part.             *)
THEOREM OneCallerFollowsProtocol ==
  ASSUME \A c, d \in Callers : c = d
  PROVE  Spec => FollowsProtocol
  <1>1. Init => Protocol!Init
    BY DEF Init, Protocol!Init, Tally
  <1>2. BreakerInv /\ CapturedIsCurrent /\ [Next]_vars => [Protocol!Next]_(Protocol!vars)
    <2> SUFFICES ASSUME BreakerInv, CapturedIsCurrent, [Next]_vars
                 PROVE  Protocol!Next \/ (state' = state /\ Tally' = Tally)
      BY DEF Protocol!vars
    <2> USE BreakerAssumption
         DEF BreakerInv, TypeOK, State, CapturedIsCurrent, ClosedBelowThreshold,
             HalfOpenUnfinished, Tally, breaker
    <2>1. ASSUME NEW c \in Callers, Reject(c) PROVE state' = state /\ Tally' = Tally
      BY <2>1 DEF Reject
    <2>2. ASSUME NEW c \in Callers, Probe(c) PROVE Protocol!Probe
      BY <2>2 DEF Probe, Protocol!Probe
    <2>3. ASSUME NEW c \in Callers, Admit(c) PROVE state' = state /\ Tally' = Tally
      BY <2>3 DEF Admit
    <2>4. ASSUME NEW c \in Callers, Fail(c)
          PROVE Protocol!CountFailure \/ Protocol!Trip \/ Protocol!Reopen
      BY <2>4 DEF Fail, Trips, Protocol!CountFailure, Protocol!Trip, Protocol!Reopen
    <2>5. ASSUME NEW c \in Callers, TrialSuccess(c)
          PROVE Protocol!CountTrial \/ Protocol!Recover
      BY <2>5 DEF TrialSuccess, Recovers, Protocol!CountTrial, Protocol!Recover
    <2>6. ASSUME NEW c \in Callers, NormalSuccess(c) PROVE Protocol!ForgetFailures
      BY <2>6 DEF NormalSuccess, Protocol!ForgetFailures
    <2>7. CASE Tick \/ ServiceFlips \/ UNCHANGED vars
      BY <2>7 DEF Tick, ServiceFlips, vars
    <2> QED
      BY <2>1, <2>2, <2>3, <2>4, <2>5, <2>6, <2>7
         DEF Next, Begin, Return, Protocol!Next
  <1> QED
    BY <1>1, <1>2, KeepsBreakerInv, CapturedStaysCurrent, PTL
       DEF Spec, FollowsProtocol, Protocol!Spec
=============================================================================
