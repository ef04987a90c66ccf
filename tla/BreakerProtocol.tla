--------------------------- MODULE BreakerProtocol ---------------------------
(***************************************************************************)
(* The circuit breaker as its own documentation draws it: three modes, and *)
(* one tally that counts consecutive failures while Closed and trial       *)
(* successes while HalfOpen.  There are no callers, no lock and no clock:  *)
(* this is the promise, CircuitBreaker.tla is the code.                    *)
(***************************************************************************)
EXTENDS Naturals

CONSTANTS Threshold,      \* consecutive failures that trip the breaker
          HalfOpenMax     \* trial successes that close it again

VARIABLES mode, tally

vars == <<mode, tally>>

Init == mode = "Closed" /\ tally = 0

(* A call fails while Closed, without reaching the threshold or reaching it. *)
CountFailure == /\ mode = "Closed" /\ tally + 1 < Threshold
                /\ tally' = tally + 1
                /\ UNCHANGED mode

Trip == /\ mode = "Closed" /\ tally + 1 = Threshold
        /\ mode' = "Open" /\ tally' = 0

(* A call succeeds while Closed: the failures were not consecutive. *)
ForgetFailures == mode = "Closed" /\ tally' = 0 /\ UNCHANGED mode

(* The cooldown is over and a trial is let through. *)
Probe == /\ mode = "Open"
         /\ mode' = "HalfOpen" /\ tally' = 0

(* A trial succeeds: one more to go, or the service has recovered. *)
CountTrial == /\ mode = "HalfOpen" /\ tally + 1 < HalfOpenMax
              /\ tally' = tally + 1
              /\ UNCHANGED mode

Recover == /\ mode = "HalfOpen" /\ tally + 1 = HalfOpenMax
           /\ mode' = "Closed" /\ tally' = 0

(* "If it fails, it opens again." *)
Reopen == /\ mode = "HalfOpen"
          /\ mode' = "Open" /\ tally' = 0

Next == \/ CountFailure \/ Trip \/ ForgetFailures
        \/ Probe \/ CountTrial \/ Recover \/ Reopen

Spec == Init /\ [][Next]_vars
=============================================================================
