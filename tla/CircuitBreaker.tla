---------------------------- MODULE CircuitBreaker ----------------------------
(***************************************************************************)
(* src/05_patterns/04_circuit_breaker/main.go: goroutines share one        *)
(* CircuitBreaker and call Execute.  Execute holds the mutex twice, before *)
(* and after fn(), and carries the state it read in the first critical     *)
(* section into the second one; between the two the other callers run.     *)
(***************************************************************************)
EXTENDS Naturals, FiniteSets

CONSTANTS Callers,        \* goroutines that call Execute
          Threshold,      \* cb.threshold
          HalfOpenMax,    \* cb.halfOpenMax
          ResetTimeout,   \* cb.resetTimeout, in ticks
          MaxFailures     \* bound: no call fails once failures reaches it

ASSUME BreakerAssumption ==
    /\ Threshold \in Nat \ {0}
    /\ HalfOpenMax \in Nat \ {0}
    /\ ResetTimeout \in Nat
    /\ MaxFailures \in Nat

VARIABLES
    state,      \* cb.state
    failures,   \* cb.failures
    successes,  \* cb.successes
    elapsed,    \* time.Since(cb.lastFailure), no finer than "over the timeout"
    pc,         \* where a caller is: out of Execute, inside fn(), turned away
    seen,       \* Execute's local `state`, as read before fn()
    up,         \* whether the service behind fn() answers
    streak      \* history: calls that returned an error since one last succeeded

breaker == <<state, failures, successes, elapsed>>
vars == <<state, failures, successes, elapsed, pc, seen, up, streak>>

State == {"Closed", "Open", "HalfOpen"}

(* The zero value of lastFailure is long ago, hence the cooldown is over.   *)
Init == /\ state = "Closed"
        /\ failures = 0 /\ successes = 0
        /\ elapsed = ResetTimeout + 1
        /\ pc = [c \in Callers |-> "idle"]
        /\ seen = [c \in Callers |-> "Closed"]
        /\ up \in BOOLEAN
        /\ streak = 0

-----------------------------------------------------------------------------
(* The first critical section of Execute.                                   *)

CooldownOver == elapsed > ResetTimeout

Reject(c) == /\ pc[c] # "calling"
             /\ state = "Open" /\ ~CooldownOver
             /\ pc' = [pc EXCEPT ![c] = "rejected"]
             /\ UNCHANGED <<breaker, seen, up, streak>>

BugProbeKeepsSuccesses(c) ==
    /\ pc[c] # "calling"
    /\ state = "Open" /\ CooldownOver
    /\ state' = "HalfOpen"
    /\ pc' = [pc EXCEPT ![c] = "calling"]
    /\ seen' = [seen EXCEPT ![c] = "HalfOpen"]
    /\ UNCHANGED <<failures, successes, elapsed, up, streak>>

BugReadsBeforeTransition(c) ==
    /\ pc[c] # "calling"
    /\ state = "Open" /\ CooldownOver
    /\ state' = "HalfOpen" /\ successes' = 0
    /\ pc' = [pc EXCEPT ![c] = "calling"]
    /\ seen' = [seen EXCEPT ![c] = state]
    /\ UNCHANGED <<failures, elapsed, up, streak>>

Probe(c) == /\ pc[c] # "calling"
            /\ state = "Open" /\ CooldownOver
            /\ state' = "HalfOpen" /\ successes' = 0
            /\ pc' = [pc EXCEPT ![c] = "calling"]
            /\ seen' = [seen EXCEPT ![c] = "HalfOpen"]
            /\ UNCHANGED <<failures, elapsed, up, streak>>

BugAdmitClearsSuccesses(c) ==
    /\ pc[c] # "calling"
    /\ state # "Open"
    /\ successes' = 0
    /\ pc' = [pc EXCEPT ![c] = "calling"]
    /\ seen' = [seen EXCEPT ![c] = state]
    /\ UNCHANGED <<state, failures, elapsed, up, streak>>

Admit(c) == /\ pc[c] # "calling"
            /\ state # "Open"
            /\ pc' = [pc EXCEPT ![c] = "calling"]
            /\ seen' = [seen EXCEPT ![c] = state]
            /\ UNCHANGED <<breaker, up, streak>>

-----------------------------------------------------------------------------
(* The second critical section, after fn() returned.                        *)

BugTripsLate(c) == seen[c] = "HalfOpen" \/ failures >= Threshold

Trips(c) == seen[c] = "HalfOpen" \/ failures + 1 >= Threshold

Fail(c) == /\ pc[c] = "calling" /\ ~up
           /\ failures < MaxFailures
           /\ failures' = failures + 1
           /\ elapsed' = 0
           /\ state' = IF Trips(c) THEN "Open" ELSE state
           /\ streak' = streak + 1
           /\ pc' = [pc EXCEPT ![c] = "idle"]
           /\ UNCHANGED <<successes, seen, up>>

Recovers == successes + 1 >= HalfOpenMax

TrialSuccess(c) ==
    /\ pc[c] = "calling" /\ up /\ seen[c] = "HalfOpen"
    /\ successes' = successes + 1
    /\ state' = IF Recovers THEN "Closed" ELSE state
    /\ failures' = IF Recovers THEN 0 ELSE failures
    /\ streak' = 0
    /\ pc' = [pc EXCEPT ![c] = "idle"]
    /\ UNCHANGED <<elapsed, seen, up>>

BugKeepsFailures(c) ==
    /\ pc[c] = "calling" /\ up /\ seen[c] # "HalfOpen"
    /\ streak' = 0
    /\ pc' = [pc EXCEPT ![c] = "idle"]
    /\ UNCHANGED <<breaker, seen, up>>

NormalSuccess(c) == /\ pc[c] = "calling" /\ up /\ seen[c] # "HalfOpen"
                    /\ failures' = 0
                    /\ streak' = 0
                    /\ pc' = [pc EXCEPT ![c] = "idle"]
                    /\ UNCHANGED <<state, successes, elapsed, seen, up>>

-----------------------------------------------------------------------------
Tick == /\ elapsed <= ResetTimeout
        /\ elapsed' = elapsed + 1
        /\ UNCHANGED <<state, failures, successes, pc, seen, up, streak>>

(* The service goes down or comes back: every fn() that returns meanwhile   *)
(* fails or succeeds.  ExternalService in the program is the case that is   *)
(* down for its first failUntil calls and up from then on.                  *)
ServiceFlips == up' = ~up /\ UNCHANGED <<breaker, pc, seen, streak>>

Begin(c) == Reject(c) \/ Probe(c) \/ Admit(c)
Return(c) == Fail(c) \/ TrialSuccess(c) \/ NormalSuccess(c)

Next == \/ \E c \in Callers : Begin(c) \/ Return(c)
        \/ Tick
        \/ ServiceFlips

Spec == Init /\ [][Next]_vars

(* Time passes, fn() returns, and every caller keeps calling Execute.       *)
Fairness == /\ WF_vars(Tick)
            /\ \A c \in Callers : WF_vars(Begin(c)) /\ WF_vars(Return(c))

FairSpec == Spec /\ Fairness
-----------------------------------------------------------------------------
(* Execute's local state is what it read after the Open -> HalfOpen        *)
(* transition, so no call runs under "Open".                               *)
TypeOK == /\ state \in State
          /\ failures \in Nat /\ successes \in Nat /\ streak \in Nat
          /\ elapsed \in 0..(ResetTimeout + 1)
          /\ pc \in [Callers -> {"idle", "calling", "rejected"}]
          /\ seen \in [Callers -> {"Closed", "HalfOpen"}]
          /\ up \in BOOLEAN

(* A breaker that still lets everything through has not yet counted        *)
(* threshold failures, whichever calls are in flight or late.              *)
ClosedBelowThreshold == state = "Closed" => failures < Threshold

(* A breaker that is still testing has not yet seen halfOpenMax successes: *)
(* it cannot be stuck half-open with the evidence for closing in hand.     *)
HalfOpenUnfinished == state = "HalfOpen" => successes < HalfOpenMax

(* "tracking consecutive failures": while Closed the counter is exactly    *)
(* the number of errors since the last success, although trials of an      *)
(* earlier half-open period may still return and take the other branch.    *)
FailuresAreConsecutive == state = "Closed" => failures = streak

(* A trial still in flight when the breaker is closed belongs to a period  *)
(* that already has its successes: when it succeeds it clears the failures *)
(* like any other success, although it takes the other branch.             *)
LateTrialsCountAsSuccess ==
    state = "Closed" =>
        \A c \in Callers : pc[c] = "calling" /\ seen[c] = "HalfOpen"
                              => successes >= HalfOpenMax

(* All of these, for every reachable state.                                *)
BreakerInv == /\ TypeOK /\ ClosedBelowThreshold /\ HalfOpenUnfinished
              /\ FailuresAreConsecutive /\ LateTrialsCountAsSuccess

(* Closed only trips for threshold consecutive errors, or because a trial  *)
(* of the half-open period failed after the breaker had already closed.    *)
TripIsJustified ==
    [][ state = "Closed" /\ state' = "Open" =>
          \/ streak' >= Threshold
          \/ \E c \in Callers : /\ pc[c] = "calling" /\ pc'[c] = "idle"
                               /\ seen[c] = "HalfOpen" ]_vars

(* Once the service answers for good and callers keep calling, the breaker *)
(* closes and stays closed: no in-flight trial, no count left from an      *)
(* earlier period keeps it open or half-open.                              *)
SettlesClosed == <>[]up => <>[](state = "Closed")

-----------------------------------------------------------------------------
Trials == {c \in Callers : pc[c] = "calling" /\ seen[c] = "HalfOpen"}

(* main.go:39 and :9 "Testing one request".                                *)
AtMostOneTrial == Cardinality(Trials) <= 1

(* main.go:118 prints "HALF-OPEN -> CLOSED" for every recovery, and :72    *)
(* "2 successes in half-open" is what a recovery takes: the breaker never  *)
(* goes from Open to Closed without a half-open period in between.         *)
ClosesOnlyFromHalfOpen ==
    [][state' = "Closed" /\ state # "Closed" => state = "HalfOpen"]_vars

-----------------------------------------------------------------------------
(* With one caller in the system Execute is the documented state machine;  *)
(* the two properties above are where concurrent callers leave it.         *)
Tally == IF state = "Closed" THEN failures
         ELSE IF state = "HalfOpen" THEN successes ELSE 0

Protocol == INSTANCE BreakerProtocol WITH mode <- state, tally <- Tally

FollowsProtocol == Protocol!Spec
=============================================================================
