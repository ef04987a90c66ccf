---------------------------- MODULE Concurrency ----------------------------
(* The worker pool and the other concurrent programs of src/03_concurrency,  *)
(* src/05_patterns and src/06_networking/03_http_client.  They share nothing: *)
(* subject picks one of them in the initial state and only that one moves.   *)
(* The worker pool is extended, the others are instances.                    *)
EXTENDS WorkerPool, Integers, FiniteSets

CONSTANTS Resizers, Compressors, Uploaders, Count,   \* Pipeline
          Tasks, MaxConcurrency,   \* RunBounded
          Numbers, Producers, PerSource, Wanted,
          Hands, NumJobs, JobsCap, ResultsCap,   \* ChannelPatterns
          MaxRetries, InitialDelay, MaxDelay, Multiplier, JitterFactor,
          Retries,   \* Retry
          Routines, Writer,   \* SharedState
          Children, MaxTicks, FastCount, SlowCount, ChanCap   \* ContextSelect

VARIABLES subject,
          generated, shut, at, holds, uploaded, failed, dropped,
          collecting, ctxDone,   \* Pipeline
          inside, added, launched, wg, sem, doing, firstErr, allErrors,
          returned,   \* RunBounded
          sent, toSend, ended, results, made, chClosed, forward, left,
          mergedClosed, merged, section, counter, eaten, done, outClosed,
          jobs, jobsShut, next, busy, answers, answersShut,
          printed,   \* ChannelPatterns
          attempt, delay, step, lastErr, waits, calls,
          ctxOver, tries, backoff, client, bodies, expired,   \* Retry
          stage, spot, local, plain, safe, atomic, mu, readers, writing,
          setting, got, once,   \* SharedState
          parentOver, childOver, task, ticks, deadline, query,
          service, caller, fastSent, slowSent, fastRead, slowRead,
          quit   \* ContextSelect

PL == INSTANCE Pipeline
RB == INSTANCE RunBounded
CP == INSTANCE ChannelPatterns
RT == INSTANCE Retry
SH == INSTANCE SharedState
CS == INSTANCE ContextSelect

(* The buffers of 03_select_statement hold all that is sent.                 *)
ASSUME ConcurrencyAssumption ==
    /\ PL!CrewAssumption
    /\ Tasks \in Nat /\ MaxConcurrency \in Nat
    /\ Numbers \in Nat /\ PerSource \in Nat /\ Wanted \in Nat
    /\ Hands # {} /\ NumJobs \in Nat
    /\ MaxRetries \in Nat /\ InitialDelay \in Nat /\ MaxDelay \in Nat
    /\ Multiplier \in Nat /\ JitterFactor \in Nat /\ Retries \in Nat
    /\ IsFiniteSet(Routines) /\ Routines # {}
    /\ MaxTicks \in Nat /\ FastCount \in Nat /\ SlowCount \in Nat
    /\ ChanCap \in Nat /\ FastCount <= ChanCap /\ SlowCount <= ChanCap

pipelineVars == <<generated, shut, at, holds, uploaded, failed, dropped,
    collecting, ctxDone>>
boundedVars == <<inside, added, launched, wg, sem, doing, firstErr,
    allErrors, returned>>
patternsVars == <<sent, toSend, ended, results, made, chClosed, forward, left,
    mergedClosed, merged, section, counter, eaten, done, outClosed>>
bufferedVars == <<jobs, jobsShut, next, busy, answers, answersShut,
    printed>>
retryVars == <<attempt, delay, step, lastErr, waits, calls,
    ctxOver>>
httpVars == <<tries, backoff, client, bodies, expired>>
sharedVars == <<stage, spot, local, plain, safe, atomic, mu, readers,
    writing, setting, got, once>>
contextsVars == <<parentOver, childOver, task, ticks, deadline, query>>
selectVars == <<service, caller, fastSent, slowSent, fastRead, slowRead,
    quit>>

ConcurrencyInit ==
    /\ subject \in {"pool", "pipeline", "bounded", "patterns", "buffered",
                    "retry", "http", "shared", "contexts", "select"}
    /\ Init /\ PL!Init /\ CP!Init /\ CP!BufferedInit /\ RT!Init /\ RT!HTTPInit
    /\ SH!Init /\ CS!ContextInit /\ CS!SelectInit
    /\ RB!Init /\ (subject # "bounded" => ~inside)

PoolStep == /\ subject = "pool" /\ Next
            /\ UNCHANGED <<subject, pipelineVars, boundedVars, patternsVars,
                           bufferedVars, retryVars, httpVars, sharedVars,
                           contextsVars, selectVars>>
PipelineStep == /\ subject = "pipeline" /\ PL!Next
                /\ UNCHANGED <<subject, vars, boundedVars, patternsVars,
                               bufferedVars, retryVars, httpVars, sharedVars,
                               contextsVars, selectVars>>
BoundedStep == /\ subject = "bounded" /\ RB!Next
               /\ UNCHANGED <<subject, vars, pipelineVars, patternsVars,
                              bufferedVars, retryVars, httpVars, sharedVars,
                              contextsVars, selectVars>>
PatternsStep == /\ subject = "patterns" /\ CP!Next
                /\ UNCHANGED <<subject, vars, pipelineVars, boundedVars,
                               bufferedVars, retryVars, httpVars, sharedVars,
                               contextsVars, selectVars>>
BufferedStep == /\ subject = "buffered" /\ CP!BufferedNext
                /\ UNCHANGED <<subject, vars, pipelineVars, boundedVars,
                               patternsVars, retryVars, httpVars, sharedVars,
                               contextsVars, selectVars>>
RetryStep == /\ subject = "retry" /\ RT!Next
             /\ UNCHANGED <<subject, vars, pipelineVars, boundedVars,
                            patternsVars, bufferedVars, httpVars, sharedVars,
                            contextsVars, selectVars>>
HttpStep == /\ subject = "http" /\ RT!HTTPNext
            /\ UNCHANGED <<subject, vars, pipelineVars, boundedVars,
                           patternsVars, bufferedVars, retryVars, sharedVars,
                           contextsVars, selectVars>>
SharedStep == /\ subject = "shared" /\ SH!Next
              /\ UNCHANGED <<subject, vars, pipelineVars, boundedVars,
                             patternsVars, bufferedVars, retryVars, httpVars,
                             contextsVars, selectVars>>
ContextsStep == /\ subject = "contexts" /\ CS!ContextNext
                /\ UNCHANGED <<subject, vars, pipelineVars, boundedVars,
                               patternsVars, bufferedVars, retryVars,
                               httpVars, sharedVars, selectVars>>
SelectStep == /\ subject = "select" /\ CS!SelectNext
              /\ UNCHANGED <<subject, vars, pipelineVars, boundedVars,
                             patternsVars, bufferedVars, retryVars, httpVars,
                             sharedVars, contextsVars>>

ConcurrencyNext == \/ PoolStep \/ PipelineStep \/ BoundedStep \/ PatternsStep
                   \/ BufferedStep \/ RetryStep \/ HttpStep \/ SharedStep
                   \/ ContextsStep \/ SelectStep

allVars == <<subject, vars, pipelineVars, boundedVars, patternsVars, bufferedVars,
             retryVars, httpVars, sharedVars, contextsVars, selectVars>>

(* Goroutines that can move are eventually scheduled, and calls return; no   *)
(* cancellation or timeout need ever come.                                   *)
ConcurrencyFairness ==
    /\ WF_vars(subject = "pool" /\ (Submit \/ Close))
    /\ \A w \in Workers : WF_vars(subject = "pool" /\ Work(w))
    /\ WF_vars(subject = "pool" /\ (CloseResults \/ Collect \/ Finish))
    /\ \A w \in PL!Crew : WF_pipelineVars(subject = "pipeline" /\ PL!Work(w))
    /\ WF_pipelineVars(subject = "pipeline" /\ (PL!GeneratorReturns \/ PL!MainReturns))
    /\ \A s \in 1..3 : WF_pipelineVars(subject = "pipeline" /\ PL!Shut(s))
    /\ WF_boundedVars(subject = "bounded" /\ RB!Next)
    /\ WF_patternsVars(subject = "patterns" /\ CP!Next)
    /\ WF_bufferedVars(subject = "buffered" /\ CP!BufferedNext)
    /\ WF_sharedVars(subject = "shared" /\ SH!Next)
    /\ WF_selectVars(subject = "select" /\ CS!SelectNext)
    /\ WF_contextsVars(subject = "contexts" /\ CS!TaskReturns)
    /\ \A c \in Children : WF_contextsVars(subject = "contexts" /\ CS!WorkerStops(c))

ConcurrencySpec == ConcurrencyInit /\ [][ConcurrencyNext]_allVars /\ ConcurrencyFairness

-----------------------------------------------------------------------------
(* See Pipeline: two resize workers, one each for compress and upload, three *)
(* images, the deadline at any moment or never.                              *)
PipelineAccounts == PL!PipelineInv

(* See RunBounded: three tasks, two at a time, both places of the Acquire.   *)
BoundedAndWaitedFor == RB!BoundedAndWaitedFor

(* See ChannelPatterns: in every program nothing is lost, doubled or, source *)
(* by source, reordered between the senders and the range that collects.     *)
ChannelsDeliver == CP!ChainDelivers /\ CP!MergesEverySource /\ CP!AnswersEveryJob

(* See Retry, both loops: waits on schedule, calls within the limit, the     *)
(* outcome that of the last call, no response body left open.                *)
RetriesKeepSchedule == RT!KeepsSchedule /\ RT!NoBodyLeft

(* See SharedState, and ContextSelect's two programs.                        *)
SharedWithoutHarm == /\ SH!LocksProtect /\ CS!CancellationCascades
                     /\ CS!ProducersAreNotStranded

(* Each program reaches its end, under every interleaving: nobody is left    *)
(* waiting for a channel, a semaphore, a wait group or a lock.  The pool's   *)
(* collector and the pipeline's end whether the context is cancelled or not; *)
(* the pool's submitter, unless it is.  Every worker under a context stops,  *)
(* though nobody may cancel main's: parentTask's return does.                *)
ProgramsEnd ==
    /\ subject = "pool" ~> finished
    /\ subject = "pool" ~> jobsClosed \/ cancelled
    /\ subject = "pipeline" ~> ~collecting
    /\ subject = "bounded" ~> returned
    /\ subject = "patterns" ~> section = "over"
    /\ subject = "buffered" ~> CP!Over
    /\ subject = "shared" ~> stage = 6
    /\ subject = "select" ~> caller \in {"quit", "idle"}
    /\ \A c \in Children : subject = "contexts" ~> ticks[c] = CS!Stopped
=============================================================================
