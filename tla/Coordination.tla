----------------------------- MODULE Coordination -----------------------------
(* The circuit breaker, the distributed lock and the event bus side by side,  *)
(* each with the goroutines that use it.  They are programs of their own:     *)
(* subject picks one of them in the initial state and only that one moves.    *)
EXTENDS CircuitBreaker, DistributedLock, EventBus

(* The holder strings of the sessions: one for each, or one for all.          *)
OwnName == [s \in Sessions |-> s]

CONSTANT w    \* the one name of the shared-name runs
SharedName == [s \in Sessions |-> w]

VARIABLE subject

CoordinationInit == /\ subject \in {"breaker", "lock", "bus"}
                    /\ Init /\ LockInit /\ BusInit
                    /\ subject # "breaker" => up

BreakerStep == /\ subject = "breaker" /\ Next
               /\ UNCHANGED <<subject, lockVars, busVars>>

LockStep == /\ subject = "lock" /\ LockNext
            /\ UNCHANGED <<subject, vars, busVars>>

BusStep == /\ subject = "bus" /\ BusNext
           /\ UNCHANGED <<subject, vars, lockVars>>

CoordinationNext == BreakerStep \/ LockStep \/ BusStep

allVars == <<subject, vars, lockVars, busVars>>

(* The fairness of FairSpec, FairLockSpec and FairBusSpec, each for the       *)
(* program that runs.                                                         *)
CoordinationFairness ==
    /\ WF_vars(subject = "breaker" /\ Tick)
    /\ \A c \in Callers : WF_vars(subject = "breaker" /\ (Begin(c) \/ Return(c)))
    /\ WF_lockVars(subject = "lock" /\ ExpirySweep)
    /\ WF_lockVars(subject = "lock" /\ TimePasses)
    /\ \A p \in Publishers : WF_busVars(subject = "bus" /\ (Offer(p) \/ RUnlock(p)))
    /\ \A s \in Subscribers \ Slow :
           WF_busVars(subject = "bus" /\ (Receive(s) \/ Stop(s)))

CoordinationSpec ==
    CoordinationInit /\ [][CoordinationNext]_allVars /\ CoordinationFairness
=============================================================================
