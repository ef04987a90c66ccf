-------------------------------- MODULE Retry --------------------------------
(* The two retry loops of the repository, each with its own initial states    *)
(* and steps.                                                                 *)
EXTENDS Integers, Sequences

------------------------------------------------------------------------------
(* src/05_patterns/05_retry_with_backoff: one call of Retry, with its options,  *)
(* its context and a function that fails as it likes.  Delays are numbers of   *)
(* some unit; jitter is modelled by its extremes and its middle.               *)

CONSTANTS MaxRetries, InitialDelay, MaxDelay, Multiplier,
          JitterFactor   \* what may be added to or taken from a delay, as a multiple of it

VARIABLES
    attempt,    \* the loop variable
    delay,      \* the delay before jitter
    step,       \* "fn" runs, "wait" in the select, or the outcome
    lastErr,    \* of the last call: "none", "nil", "retryable", "fatal"
    waits,      \* history: actualDelay of every wait begun
    calls,      \* history: how often fn was called
    ctxOver     \* ctx.Done() is closed

vars == <<attempt, delay, step, lastErr, waits, calls, ctxOver>>

Outcomes == {"ok", "fatal", "exhausted", "cancelled"}

Jitters == {-JitterFactor, 0, JitterFactor}

Capped(d) == IF d > MaxDelay THEN MaxDelay ELSE d

Init == /\ attempt = 0 /\ delay = InitialDelay /\ step = "fn" /\ lastErr = "none"
        /\ waits = <<>> /\ calls = 1 /\ ctxOver = FALSE

NotNegative(d) == IF d < 0 THEN 0 ELSE d

Jittered(d) == {NotNegative(d + jitter * d) : jitter \in Jitters}

(* fn() returns.  A nil error ends the loop, as does one that says it is not   *)
(* retryable; unknown errors count as retryable.  Otherwise the next round     *)
(* begins: the jittered delay is fixed and its timer started.                  *)
Returned(err) ==
    /\ step = "fn"
    /\ lastErr' = err
    /\ LET again == err = "retryable" /\ attempt < MaxRetries
       IN /\ attempt' = IF again THEN attempt + 1 ELSE attempt
          /\ IF again THEN \E d \in Jittered(delay) : waits' = Append(waits, d)
                      ELSE waits' = waits
          /\ step' = CASE err = "nil" -> "ok"
                       [] err = "fatal" -> "fatal"
                       [] again -> "wait"
                       [] OTHER -> "exhausted"
    /\ UNCHANGED <<delay, calls, ctxOver>>

(* Exponential increase with cap.                                              *)
Grow(d) == Capped(d * Multiplier)

BugTimerFires == /\ step = "wait"
                 /\ step' = "fn" /\ calls' = calls + 1
                 /\ delay' = Grow(waits[attempt])
                 /\ UNCHANGED <<attempt, lastErr, waits, ctxOver>>

(* The timer wins: fn is called again.  It may win although the context is     *)
(* over: it has been running since before the select, and of two ready cases   *)
(* select takes either.                                                        *)
TimerFires == /\ step = "wait"
              /\ step' = "fn" /\ calls' = calls + 1
              /\ delay' = Grow(delay)
              /\ UNCHANGED <<attempt, lastErr, waits, ctxOver>>

CtxEnds == /\ ~ctxOver /\ step \in {"fn", "wait"}
           /\ ctxOver' = TRUE
           /\ UNCHANGED <<attempt, delay, step, lastErr, waits, calls>>

(* ctx.Done() wins.                                                            *)
Cancelled == /\ step = "wait" /\ ctxOver
             /\ step' = "cancelled"
             /\ UNCHANGED <<attempt, delay, lastErr, waits, calls, ctxOver>>

Next == \/ \E err \in {"nil", "retryable", "fatal"} : Returned(err)
        \/ TimerFires \/ CtxEnds \/ Cancelled

Spec == Init /\ [][Next]_vars

(* computeBackoffSchedule, the schedule main prints.                           *)
Schedule[i \in 1..MaxRetries] ==
    IF i = 1 THEN InitialDelay
    ELSE LET longer == Schedule[i - 1] * Multiplier
         IN IF longer < MaxDelay THEN longer ELSE MaxDelay
-----------------------------------------------------------------------------
(* The k-th wait is the k-th delay of the printed schedule give or take its    *)
(* own jitter, which never adds up over the rounds; fn is called once, and     *)
(* once more for every wait that ran out, at most MaxRetries times; and the    *)
(* outcome is that of the last call: success is never reported as a            *)
(* cancellation or as exhaustion, nor either of these without its reason.      *)
KeepsSchedule ==
    /\ Len(waits) = attempt /\ attempt <= MaxRetries
    /\ \A i \in DOMAIN waits : waits[i] \in Jittered(Schedule[i])
    /\ calls = IF step \in {"wait", "cancelled"} THEN attempt ELSE attempt + 1
    /\ step = "ok" <=> lastErr = "nil"
    /\ step = "fatal" <=> lastErr = "fatal"
    /\ step \in {"wait", "cancelled", "exhausted"} => lastErr = "retryable"
    /\ step = "exhausted" => attempt = MaxRetries
    /\ step = "cancelled" => ctxOver

------------------------------------------------------------------------------
(* src/06_networking/03_http_client: doWithRetry and main's readJSON of what it *)
(* returns.  The request carries the context, so an attempt under a context    *)
(* that is over fails without a response.                                      *)

CONSTANTS Retries   \* maxRetries; main passes 3

VARIABLES tries,     \* the loop variable
          backoff,   \* in units of 100 ms
          client,    \* "do", "backoff", or what doWithRetry returned
          bodies,    \* response bodies not closed
          expired    \* the context is over

httpVars == <<tries, backoff, client, bodies, expired>>

HTTPInit == tries = 0 /\ backoff = 1 /\ client = "do" /\ bodies = 0 /\ expired = FALSE

(* After a failed attempt: the next round, or none left.                       *)
NextRound == IF tries < Retries
             THEN tries' = tries + 1 /\ client' = "backoff"
             ELSE tries' = tries /\ client' = "exhausted"

NoResponse == /\ client = "do"
              /\ NextRound
              /\ UNCHANGED <<backoff, bodies, expired>>

BugServerError == /\ client = "do" /\ ~expired
                  /\ NextRound
                  /\ bodies' = bodies + 1
                  /\ UNCHANGED <<backoff, expired>>

(* 5xx: the body that came with it is closed at once.                          *)
ServerError == /\ client = "do" /\ ~expired
               /\ NextRound
               /\ UNCHANGED <<backoff, bodies, expired>>

Response == /\ client = "do" /\ ~expired
            /\ client' = "response"
            /\ bodies' = bodies + 1
            /\ UNCHANGED <<tries, backoff, expired>>

(* time.After(backoff) and then the doubling, with no cap.                     *)
BackoffOver == /\ client = "backoff"
               /\ client' = "do"
               /\ backoff' = 2 * backoff
               /\ UNCHANGED <<tries, bodies, expired>>

GiveUp == /\ client = "backoff" /\ expired
          /\ client' = "cancelled"
          /\ UNCHANGED <<tries, backoff, bodies, expired>>

(* readJSON: the deferred Close.                                               *)
ReadJSON == /\ client = "response" /\ bodies > 0
            /\ client' = "read"
            /\ bodies' = bodies - 1
            /\ UNCHANGED <<tries, backoff, expired>>

Expire == /\ ~expired
          /\ expired' = TRUE
          /\ UNCHANGED <<tries, backoff, client, bodies>>

HTTPNext == \/ NoResponse \/ ServerError \/ Response \/ BackoffOver \/ GiveUp
        \/ ReadJSON \/ Expire

HTTPSpec == HTTPInit /\ [][HTTPNext]_httpVars
-----------------------------------------------------------------------------
(* Powers of 2.                                                                *)
Doublings[k \in 0..Retries] == IF k = 0 THEN 1 ELSE 2 * Doublings[k - 1]

(* Whatever mix of failures the attempts end in, the one open body is that of  *)
(* the response returned, until readJSON closes it: no connection of the pool  *)
(* is lost to a retry.  The k-th wait is 2^(k-1) units.                        *)
NoBodyLeft == /\ bodies = IF client = "response" THEN 1 ELSE 0
              /\ backoff = Doublings[IF client \in {"backoff", "cancelled"}
                                     THEN tries - 1 ELSE tries]
==============================================================================
