------------------------------ MODULE RunBounded ------------------------------
(* src/03_concurrency/08_errgroup_semaphore: tasks 1..Tasks in goroutines of  *)
(* their own behind a channel semaphore.  runBounded and the loop that        *)
(* collects all errors acquire it before they launch a goroutine; the first  *)
(* loop of main lets each goroutine acquire it (`inside`).                    *)
EXTENDS Naturals, Sequences, FiniteSets

CONSTANTS Tasks, MaxConcurrency

VARIABLES
    inside,      \* which of the two it is
    added,       \* wg.Add(1) calls of the loop
    launched,    \* goroutines launched
    wg,          \* the wait group's counter
    sem,         \* tokens in the semaphore's channel
    doing,       \* where the goroutine of a task is
    firstErr,    \* the error kept by once.Do, 0 when none
    allErrors,   \* the errors appended under the mutex
    returned     \* wg.Wait() has returned

vars == <<inside, added, launched, wg, sem, doing, firstErr, allErrors, returned>>

Init == /\ inside \in BOOLEAN
        /\ added = 0 /\ launched = 0 /\ wg = 0 /\ sem = 0
        /\ doing = [t \in 1..Tasks |-> "none"]
        /\ firstErr = 0 /\ allErrors = <<>> /\ returned = FALSE

To(t, place) == doing' = [doing EXCEPT ![t] = place]

Add == /\ added = launched /\ added < Tasks
       /\ added' = added + 1
       /\ wg' = wg + 1
       /\ UNCHANGED <<inside, launched, sem, doing, firstErr, allErrors, returned>>

(* sem.Acquire() by the loop, which blocks while the channel is full.        *)
Launch == /\ launched < added
          /\ launched' = added
          /\ inside \/ sem < MaxConcurrency
          /\ sem' = IF inside THEN sem ELSE sem + 1
          /\ To(added, IF inside THEN "acquire" ELSE "run")
          /\ UNCHANGED <<inside, added, wg, firstErr, allErrors, returned>>

Acquire(t) == /\ doing[t] = "acquire" /\ sem < MaxConcurrency
              /\ sem' = sem + 1
              /\ To(t, "run")
              /\ UNCHANGED <<inside, added, launched, wg, firstErr, allErrors, returned>>

BugRecord(t) == firstErr' = t /\ allErrors' = Append(allErrors, t)

(* once.Do for runBounded, append under the mutex for the third loop.        *)
Record(t) == /\ firstErr' = IF firstErr = 0 THEN t ELSE firstErr
             /\ allErrors' = Append(allErrors, t)

Run(t) == /\ doing[t] = "run"
          /\ \/ Record(t)
             \/ UNCHANGED <<firstErr, allErrors>>
          /\ To(t, "release")
          /\ UNCHANGED <<inside, added, launched, wg, sem, returned>>

(* Deferred calls run last in, first out: Release, then Done.  A Release     *)
(* with nothing in the channel would block.                                  *)
Release(t) == /\ doing[t] = "release" /\ sem > 0
              /\ sem' = sem - 1
              /\ To(t, "finish")
              /\ UNCHANGED <<inside, added, launched, wg, firstErr, allErrors, returned>>

Done(t) == /\ doing[t] = "finish"
           /\ wg' = wg - 1
           /\ To(t, "gone")
           /\ UNCHANGED <<inside, added, launched, sem, firstErr, allErrors, returned>>

BugWait == /\ ~returned /\ wg = 0 /\ launched = added
           /\ returned' = TRUE
           /\ UNCHANGED <<inside, added, launched, wg, sem, doing, firstErr, allErrors>>

Wait == /\ ~returned /\ launched = Tasks /\ wg = 0
        /\ returned' = TRUE
        /\ UNCHANGED <<inside, added, launched, wg, sem, doing, firstErr, allErrors>>

Next == \/ Add \/ Launch \/ Wait
        \/ \E t \in 1..Tasks : Acquire(t) \/ Run(t) \/ Release(t) \/ Done(t)

Spec == Init /\ [][Next]_vars
-----------------------------------------------------------------------------
Running == {t \in 1..Tasks : doing[t] \in {"run", "release"}}

(* Never more tasks at once than the limit, each with its token, so that no  *)
(* Release can block; the wait is over only when every goroutine is gone;    *)
(* and the error returned is that of the task that failed first, whatever    *)
(* others fail at the same time.                                             *)
BoundedAndWaitedFor ==
    /\ Cardinality(Running) <= MaxConcurrency /\ sem = Cardinality(Running)
    /\ returned => \A t \in 1..Tasks : doing[t] = "gone"
    /\ firstErr = IF allErrors = <<>> THEN 0 ELSE allErrors[1]
=============================================================================
